---- MODULE Spec2Model ----
\* Model of plugins/GeminiImg/gemini_image.py (class GeminiImage): the session,
\* inbox-cache and last-artifact state machine driven by on_handle_context, the
\* gateway response parsers _generate_image / _edit_image, and the sender-id
\* resolution of _handle_image_message.
\*
\* Representation
\*   id / key    a sequence of atoms; the Python string is the atoms joined by "_"
\*               (so f"{a}_{b}" is a \o b and key.split('_') is the atoms);
\*               <<>> is the empty / None / missing value (all falsy in Python)
\*   Optional    None is <<>>, a value x is <<x>>
\*   text        a sequence of words ("" is <<>>)
\*   bytes       a record [id, len, ok]: len is the byte length, ok says whether
\*               PIL can open it
\*   dict        conversations, conversation_timestamps, last_images: functions
\*               whose DOMAIN is the set of keys present; image_cache: a sequence
\*               of entries, in dict insertion order (the lookup scans in order)
EXTENDS Integers, Sequences, FiniteSets, TLC

VARIABLES now, image_cache, conversations, conversation_timestamps, last_images,
          files, nextId, lost, ev, gw, rs, sw, lk, th, rt

vars == <<now, image_cache, conversations, conversation_timestamps, last_images,
          files, nextId, lost, ev, gw, rs, sw, lk, th, rt>>

\* ---------------------------------------------------------------- bounds
\* the clock runs to MaxTime in the one-session specification and to ShortTime
\* in the two-session one, in steps of TickStep
MaxTime == 1200
ShortTime == 600
TickStep == 300
\* files written, files lost, words of the longest prompt, parts of a response
MaxFiles == 4
ChatFiles == 2
MaxLost == 1
MaxWords == 5
MaxParts == 3
\* modification times of the files in the swept directory: 0..SweepSpread
SweepSpread == 2
\* ages of the sessions the expiry sweep meets: expiry - ExpirySpread .. expiry + ExpirySpread
ExpirySpread == 1
\* entries of the looked-up cache, and their ages: timeout .. timeout + CacheSpread
MaxCache == 3
CacheSpread == 1
\* handler threads running at the same time
Threads == 2
\* generate commands of a session that is kept alive, one every conversation_expiry seconds
LongRun == 145
\* characters of the longest text that is matched against the command lists
MaxText == 3

\* ---------------------------------------------------------------- program constants
conversation_expiry == 600
image_cache_timeout == 300
HistoryLimit == 10
MinImageBytes == 100
HashSpace == 10000

\* ---------------------------------------------------------------- values
None == <<>>
Some(x) == <<x>>

Bytes(i, n, good) == [id |-> i, len |-> n, ok |-> good]

\* Python truthiness of an Optional[bytes] / Optional[str]
TruthyBytes(o) == o # None /\ o[1].len > 0
TruthyText(o) == o # None /\ o[1] # <<>>

Range(s) == {s[i] : i \in 1..Len(s)}

Max(a, b) == IF a >= b THEN a ELSE b

\* [None] * n
Nones(n) == [i \in 1..n |-> None]

\* ---------------------------------------------------------------- Generation Gateway
\* A response of the remote API as requests.post delivers it:
\*   err         "none", or the exception raised ("ssl", "connection", "timeout",
\*               "other")
\*   status      the HTTP status code
\*   candidates  result["candidates"]: each [finishReason, parts]
\* A part is [tag, text, data]: tag "text" carries text; tag "inlineData" carries
\* data, the Optional decoded bytes (None when the "data" field is missing).
TextPart(t) == [tag |-> "text", text |-> t, data |-> None]
ImagePart(d) == [tag |-> "inlineData", text |-> <<>>, data |-> d]

OkResponse(reason, parts) ==
    [err |-> "none", status |-> 200,
     candidates |-> <<[finishReason |-> reason, parts |-> parts]>>]
ErrResponse(e) == [err |-> e, status |-> 0, candidates |-> <<>>]
HttpResponse(code) == [err |-> "none", status |-> code, candidates |-> <<>>]

RECURSIVE ParseParts(_)
\* the "for part in parts" loop: two position-aligned lists
ParseParts(parts) ==
    IF parts = <<>> THEN [texts |-> <<>>, images |-> <<>>]
    ELSE LET part == Head(parts)
             rest == ParseParts(Tail(parts))
         IN  IF part.tag = "text" /\ part.text # <<>>
             THEN [texts |-> <<Some(part.text)>> \o rest.texts,
                   images |-> <<None>> \o rest.images]
             ELSE IF part.tag = "inlineData" /\ part.data # None
             THEN [texts |-> <<None>> \o rest.texts,
                   images |-> <<part.data>> \o rest.images]
             ELSE rest

\* [x for x in xs if x]
TruthyTexts(xs) == SelectSeq(xs, TruthyText)
TruthyImages(xs) == SelectSeq(xs, TruthyBytes)

\* next((x for x in xs if x), None)
FirstTruthyText(xs) == IF TruthyTexts(xs) = <<>> THEN None ELSE Head(TruthyTexts(xs))
FirstTruthyImage(xs) == IF TruthyImages(xs) = <<>> THEN None ELSE Head(TruthyImages(xs))

\* not image_datas or all(img is None for img in image_datas)
NoImageData(images) == \A i \in 1..Len(images) : images[i] = None
\* text_responses and any(text is not None for text in text_responses)
AnyText(texts) == \E i \in 1..Len(texts) : texts[i] # None

GenerateDiagnostic(e) == <<"generate_failed", e>>
EditDiagnostic(e) == <<"edit_failed", e>>
\* json.dumps(result) of a policy-rejected response
SafetyJson == <<"finishReason", "IMAGE_SAFETY">>

\* the equalisation step: pad the shorter list with None
PadTo(xs, n) == xs \o Nones(n - Len(xs))

GenerateEqualized(parsed) ==
    LET valid_images == TruthyImages(parsed.images)
        valid_texts == TruthyTexts(parsed.texts)
        max_length == Max(Len(valid_images), Len(valid_texts))
    IN  [images |-> PadTo(valid_images, max_length),
         texts |-> PadTo(valid_texts, max_length)]

\* the except clauses of _generate_image
GenerateTransportResult(e) == [images |-> <<>>, texts |-> <<Some(GenerateDiagnostic(e))>>]

\* _generate_image: (image_datas, text_responses) for a response
_generate_image(resp) ==
    IF resp.err # "none"
    THEN GenerateTransportResult(resp.err)
    ELSE IF resp.status # 200 \/ resp.candidates = <<>>
    THEN [images |-> <<>>, texts |-> <<>>]
    ELSE LET parsed == ParseParts(resp.candidates[1].parts)
         IN  IF NoImageData(parsed.images)
             THEN [images |-> <<>>,
                   texts |-> IF AnyText(parsed.texts)
                             THEN TruthyTexts(parsed.texts) ELSE <<>>]
             ELSE GenerateEqualized(parsed)

EditNarrowedLast(parsed) ==
    [image |-> IF TruthyImages(parsed.images) = <<>> THEN None
               ELSE TruthyImages(parsed.images)[Len(TruthyImages(parsed.images))],
     text |-> FirstTruthyText(parsed.texts)]

\* first_valid_image, first_valid_text
EditNarrowed(parsed) ==
    [image |-> FirstTruthyImage(parsed.images),
     text |-> FirstTruthyText(parsed.texts)]

EditTransportSilent(e) == [image |-> None, text |-> None]

\* the except clauses of _edit_image
EditTransportResult(e) == [image |-> None, text |-> Some(EditDiagnostic(e))]

\* _edit_image: (image, text) for a source image and a response
_edit_image(image_data_input, resp) ==
    IF image_data_input = None
    THEN [image |-> None, text |-> None]
    ELSE IF resp.err # "none"
    THEN EditTransportResult(resp.err)
    ELSE IF resp.status # 200 \/ resp.candidates = <<>>
    THEN [image |-> None, text |-> None]
    ELSE IF resp.candidates[1].finishReason = "IMAGE_SAFETY"
    THEN [image |-> None, text |-> Some(SafetyJson)]
    ELSE LET parsed == ParseParts(resp.candidates[1].parts)
         IN  IF NoImageData(parsed.images)
             THEN [image |-> None,
                   text |-> IF AnyText(parsed.texts)
                            THEN FirstTruthyText(parsed.texts) ELSE None]
             ELSE EditNarrowed(parsed)

\* ---------------------------------------------------------------- Identity Resolver
Msg(actual, from, sender, wxid, display) ==
    [actual_user_id |-> actual, from_user_id |-> from, sender_id |-> sender,
     sender_wxid |-> wxid, self_display_name |-> display]

AtomCode(a) ==
    CASE a = "g" -> 71 [] a = "u1" -> 8549 [] a = "u2" -> 8550 [] OTHER -> 1

RECURSIVE HashId(_)
\* hash(session_id): a fixed function of the string within one process
HashId(id) == IF id = <<>> THEN 0 ELSE (31 * HashId(Tail(id)) + AtomCode(Head(id))) % 1000003

\* f"user_{hash(session_id) % 10000}"
FallbackSender(session_id) == <<"user", ToString(HashId(session_id) % HashSpace)>>

\* the first pick: actual_user_id, else from_user_id, else None
PrimarySender(msg) ==
    IF msg.actual_user_id # <<>> THEN msg.actual_user_id
    ELSE IF msg.from_user_id # <<>> THEN msg.from_user_id
    ELSE <<>>

\* the group-scope retry when the pick equals the session id
SecondarySender(msg, sender_id) ==
    IF msg.sender_id # <<>> THEN msg.sender_id
    ELSE IF msg.sender_wxid # <<>> THEN msg.sender_wxid
    ELSE IF msg.self_display_name # <<>> THEN msg.self_display_name
    ELSE sender_id

ResolveSender(is_group, session_id, msg) ==
    LET first == PrimarySender(msg)
        second == IF is_group /\ first = session_id
                  THEN SecondarySender(msg, first) ELSE first
    IN  IF second = <<>> THEN FallbackSender(session_id) ELSE second

\* cache_key of _handle_image_message
CacheKey(is_group, session_id, msg) ==
    IF is_group THEN session_id \o ResolveSender(is_group, session_id, msg)
    ELSE ResolveSender(is_group, session_id, msg)

\* ---------------------------------------------------------------- Image Inbox Cache
\* image_cache is a dict: a sequence of [key, content, timestamp] in insertion order
CacheKeys(cache) == {cache[i].key : i \in 1..Len(cache)}
CacheIndex(cache, key) == CHOOSE i \in 1..Len(cache) : cache[i].key = key
\* self.image_cache.get(key)
CacheGet(cache, key) ==
    IF key \in CacheKeys(cache) THEN Some(cache[CacheIndex(cache, key)]) ELSE None
CachePutAlone(cache, key, entry) == <<entry>>

\* self.image_cache[key] = entry
CachePut(cache, key, entry) ==
    IF key \in CacheKeys(cache)
    THEN [cache EXCEPT ![CacheIndex(cache, key)] = entry]
    ELSE Append(cache, entry)

FreshStrict(entry, t) == t - entry.timestamp < image_cache_timeout

\* time.time() - cache_data["timestamp"] <= self.image_cache_timeout
Fresh(entry, t) == t - entry.timestamp <= image_cache_timeout

EntryImageLast(entry) ==
    IF Len(entry.content) > 0 THEN Some(entry.content[Len(entry.content)]) ELSE None

\* content[0] of a non-empty list, else None
EntryImage(entry) == IF Len(entry.content) > 0 THEN Some(entry.content[1]) ELSE None

\* cache_key.startswith(f"{key}_") or cache_key.endswith(f"_{key}")
IsPrefixKey(key, ck) == Len(ck) > Len(key) /\ SubSeq(ck, 1, Len(key)) = key
IsSuffixKey(key, ck) ==
    Len(ck) > Len(key) /\ SubSeq(ck, Len(ck) - Len(key) + 1, Len(ck)) = key
KeyMatches(key, ck) == IsPrefixKey(key, ck) \/ IsSuffixKey(key, ck)

\* the exact-key step
ExactLookup(cache, t, key) ==
    LET hit == CacheGet(cache, key)
    IN  IF hit # None /\ Fresh(hit[1], t) THEN Some(EntryImage(hit[1])) ELSE None

ScanLookupStale(cache, t, key) ==
    LET hits == {i \in 1..Len(cache) : KeyMatches(key, cache[i].key)}
    IN  IF hits = {} THEN None
        ELSE Some(EntryImage(cache[CHOOSE i \in hits : \A j \in hits : i <= j]))

\* the "for cache_key in self.image_cache" scan, in insertion order
ScanLookup(cache, t, key) ==
    LET hits == {i \in 1..Len(cache) : KeyMatches(key, cache[i].key) /\ Fresh(cache[i], t)}
    IN  IF hits = {} THEN None
        ELSE Some(EntryImage(cache[CHOOSE i \in hits : \A j \in hits : i <= j]))

\* the "for part in conversation_key.split('_')" step
SplitLookup(cache, t, key) ==
    LET hits == {i \in 1..Len(key) :
                    /\ CacheGet(cache, <<key[i]>>) # None
                    /\ Fresh(CacheGet(cache, <<key[i]>>)[1], t)}
    IN  IF Len(key) <= 1 \/ hits = {} THEN None
        ELSE Some(EntryImage(CacheGet(cache,
                 <<key[CHOOSE i \in hits : \A j \in hits : i <= j]>>)[1]))

\* _get_recent_image at time t. Each step yields None (go on) or Some(result).
\* The group-scope step between the exact and the scan step needs a context
\* (a local e_context or self.current_context); neither exists, so it never runs.
_get_recent_image(cache, t, key) ==
    IF ExactLookup(cache, t, key) # None THEN ExactLookup(cache, t, key)[1]
    ELSE IF ScanLookup(cache, t, key) # None THEN ScanLookup(cache, t, key)[1]
    ELSE IF SplitLookup(cache, t, key) # None THEN SplitLookup(cache, t, key)[1]
    ELSE None

\* current_time - cache_data["timestamp"] > self.image_cache_timeout
CacheExpired(entry, t) == t - entry.timestamp > image_cache_timeout

_cleanup_image_cache(cache, t) ==
    LET keep(e) == ~CacheExpired(e, t) IN SelectSeq(cache, keep)

ValidPayloadAtFloor(payload) ==
    /\ payload # <<>>
    /\ \A i \in 1..Len(payload) : payload[i].len >= MinImageBytes
    /\ \A i \in 1..Len(payload) : payload[i].ok

\* len(image_data) > 100 for all, and Image.open succeeds for all
ValidPayload(payload) ==
    /\ payload # <<>>
    /\ \A i \in 1..Len(payload) : payload[i].len > MinImageBytes
    /\ \A i \in 1..Len(payload) : payload[i].ok

\* ---------------------------------------------------------------- Conversation Store
Restrict(f, S) == [k \in S |-> f[k]]
Without(f, k) == Restrict(f, DOMAIN f \ {k})
\* d[k] = v on a dict
With(f, k, v) == [x \in DOMAIN f \cup {k} |-> IF x = k THEN v ELSE f[x]]

SessionExpiredAtDeadline(ts, t) == t - ts >= conversation_expiry

\* current_time - timestamp > self.conversation_expiry
SessionExpired(ts, t) == t - ts > conversation_expiry

ExpiredKeys(stamps, t) == {k \in DOMAIN stamps : SessionExpired(stamps[k], t)}

SweptConversationsOnly(t) ==
    Restrict(conversations,
             {k \in DOMAIN conversations : k \in ExpiredKeys(conversation_timestamps, t)})

\* _cleanup_expired_conversations: the three maps after the sweep
SweptConversations(t) ==
    Restrict(conversations, DOMAIN conversations \ ExpiredKeys(conversation_timestamps, t))
SweptTimestampsRenewed(t) ==
    [k \in DOMAIN conversation_timestamps \ ExpiredKeys(conversation_timestamps, t) |-> t]

SweptTimestamps(t) ==
    Restrict(conversation_timestamps,
             DOMAIN conversation_timestamps \ ExpiredKeys(conversation_timestamps, t))

SweptLastImagesKept(t) == last_images

SweptLastImages(t) ==
    Restrict(last_images, DOMAIN last_images \ ExpiredKeys(conversation_timestamps, t))

\* self.conversations[key] on the defaultdict: a missing key is created empty
Touch(convs, key) == IF key \in DOMAIN convs THEN convs ELSE With(convs, key, <<>>)

\* "if len(history) > 10: history = history[-10:]" rebinds the local name only:
\* the list stored in self.conversations is the one that was extended
StoredAfterTruncate(history) == history

\* ---------------------------------------------------------------- storage
Path(prefix, id) == [prefix |-> prefix, id |-> id]
\* last_images values: a single path or a list of paths
Single(p) == [list |-> FALSE, paths |-> <<p>>]
PathListUnsaved(ps) == [list |-> TRUE, paths |-> <<>>]
PathList(ps) == [list |-> TRUE, paths |-> ps]

Exists(fs, p) == p \in DOMAIN fs
WriteFile(fs, p, data) == With(fs, p, data)

\* the first path of a list that exists, else None; a single path as it is
FirstExisting(fs, paths) ==
    LET hits == {i \in 1..Len(paths) : Exists(fs, paths[i])}
    IN  IF hits = {} THEN None ELSE Some(paths[CHOOSE i \in hits : \A j \in hits : i <= j])

ResolveLastImageNewest(fs, li, key) ==
    LET hits == {i \in 1..Len(li[key].paths) : Exists(fs, li[key].paths[i])}
    IN  IF key \notin DOMAIN li \/ hits = {} THEN None
        ELSE Some(li[key].paths[CHOOSE i \in hits : \A j \in hits : i >= j])

\* the resolution of self.last_images.get(key) to a readable path, by the edit
\* command and by the continuation
ResolveLastImage(fs, li, key) ==
    IF key \notin DOMAIN li THEN None
    ELSE IF li[key].list /\ li[key].paths # <<>> THEN FirstExisting(fs, li[key].paths)
    ELSE IF li[key].paths # <<>> /\ Exists(fs, li[key].paths[1]) THEN Some(li[key].paths[1])
    ELSE None

\* ---------------------------------------------------------------- Retention Sweeper
max_age_hours == 24
SecondsPerHour == 3600

\* an entry of os.listdir(self.save_dir), named by its path: a directory or a
\* file, with its modification time
DirEntry(isdir, mtime) == [isdir |-> isdir, mtime |-> mtime]

\* filename.startswith(("gemini_", "edited_", "temp_"))
PluginFile(p) == p.prefix \in {"gemini", "edited", "temp"}

\* file_age > max_age_seconds
TooOld(entry, t) == t - entry.mtime > max_age_hours * SecondsPerHour

\* "file_path in last_image": membership for a list of paths; for a single path
\* a substring test, which two full paths of save_dir pass only when equal
Referenced(last_image, p) == \E i \in 1..Len(last_image.paths) : last_image.paths[i] = p

InUseNever(li, p) == FALSE

\* the "for last_image in self.last_images.values()" loop
InUse(li, p) == \E k \in DOMAIN li : Referenced(li[k], p)

\* os.remove(file_path) is reached for this entry
Removed(dir, li, t, p) ==
    /\ ~dir[p].isdir
    /\ PluginFile(p)
    /\ TooOld(dir[p], t)
    /\ ~InUse(li, p)

\* _cleanup_temp_files: the directory after the run at time t
_cleanup_temp_files(dir, li, t) ==
    Restrict(dir, {p \in DOMAIN dir : ~Removed(dir, li, t, p)})

\* ---------------------------------------------------------------- history turns
NoPath == Path("none", 0)
TextOf(t) == [tag |-> "text", text |-> t, path |-> NoPath]
ImageUrl(p) == [tag |-> "image_url", text |-> <<>>, path |-> p]
Turn(role, parts) == [role |-> role, parts |-> parts]

GeneratedDefault == <<"generated">>
EditedDefault == <<"edited">>

\* text if text else default
TextOr(o, default) == IF TruthyText(o) THEN o[1] ELSE default

\* ---------------------------------------------------------------- inputs
\* who sends: the context of an inbound event
DirectCtx(u) == [session_id |-> <<u>>, isgroup |-> FALSE,
                 msg |-> Msg(<<>>, <<u>>, <<>>, <<>>, <<>>)]
GroupCtx(g, u) == [session_id |-> <<g>>, isgroup |-> TRUE,
                   msg |-> Msg(<<u>>, <<g>>, <<>>, <<>>, <<>>)]

\* the pictures a sender has: two good ones, one of exactly the minimum size
\* and one that does not decode; the id names the picture and who sent it
Photo(name, ctx, n, good) == Bytes(<<name>> \o ctx.session_id \o ctx.msg.actual_user_id, n, good)
GoodP(ctx) == Photo("P", ctx, MinImageBytes + 1, TRUE)
GoodQ(ctx) == Photo("Q", ctx, MinImageBytes + 1, TRUE)
SmallS(ctx) == Photo("S", ctx, MinImageBytes, TRUE)
GarbageG(ctx) == Photo("G", ctx, MinImageBytes + 1, FALSE)
\* what the gateway returns
ImageX == Bytes(<<"X">>, MinImageBytes + 1, TRUE)
ImageY == Bytes(<<"Y">>, MinImageBytes + 1, TRUE)
EmptyBytes == Bytes(<<"E">>, 0, FALSE)

\* what an inbound image message of a sender carries
Payloads(ctx) ==
    {<<>>, <<GoodP(ctx), GoodQ(ctx)>>, <<SmallS(ctx)>>, <<GoodP(ctx), GarbageG(ctx)>>}

\* prompts of 0, 1 and MaxWords words
Words(n) == [i \in 1..n |-> "w"]
Prompts == {Words(0), Words(1), Words(MaxWords)}

TextA == <<"A">>
TextB == <<"B">>

NoResponse == ErrResponse("unused")

\* a text message: which literals it matches, and the prompt after the prefix
Text(isExit, gen, edit, prompt) ==
    [isExit |-> isExit, gen |-> gen, edit |-> edit, prompt |-> prompt]
\* an exit literal (which may also start with a generate prefix), a generate
\* prefix (which may also be an edit prefix), an edit prefix, or none of them
TextsWith(prompts) ==
    {Text(TRUE, g, FALSE, Words(0)) : g \in BOOLEAN}
    \cup {Text(FALSE, TRUE, e, p) : e \in BOOLEAN, p \in prompts}
    \cup {Text(FALSE, FALSE, TRUE, p) : p \in prompts}
    \cup {Text(FALSE, FALSE, FALSE, p) : p \in prompts}
Texts == TextsWith({Words(0)})

\* the order of the checks in on_handle_context
Dispatch(txt) ==
    IF txt.isExit THEN "exit"
    ELSE IF txt.gen THEN "generate"
    ELSE IF txt.edit THEN "edit"
    ELSE "none"

\* ---------------------------------------------------------------- the event record
\* ev: what the last event did that is visible outside the maps, the key it
\* worked on, the sender of the inbound message and the buffers of an inbound
\* image message
Who(key, sender) == [key |-> key, sender |-> sender]

\* a text command works on conversation_key = context["session_id"], whoever in
\* the chat sent it
Commander(ctx) == Who(ctx.session_id, ResolveSender(ctx.isgroup, ctx.session_id, ctx.msg))

Event(kind, who, outcome, resp, calls, replies, action) ==
    [kind |-> kind, key |-> who.key, sender |-> who.sender, outcome |-> outcome,
     err |-> resp.err, calls |-> calls, replies |-> replies, action |-> action,
     payload |-> <<>>]

Call(fn, prompt, image, history) == [fn |-> fn, image |-> image]

Quiet == Event("none", Who(<<>>, <<>>), "none", NoResponse, <<>>, <<>>, "CONTINUE")

GwIdle == [fn |-> "idle", resp |-> NoResponse, source |-> None,
           images |-> <<>>, texts |-> <<>>, image |-> None, text |-> None]
SwIdle == [fn |-> "idle", before |-> <<>>, dir |-> <<>>]
LkIdle == [fn |-> "idle", key |-> <<>>, result |-> None]
ThIdle == [pc |-> "idle"]
RtIdle == [commands |-> <<>>, edit_commands |-> <<>>, exit_commands |-> <<>>,
           content |-> <<>>, intent |-> "idle", prompt |-> <<>>]
RsIdle == [done |-> FALSE, is_group |-> FALSE, session_id |-> <<>>,
           msg |-> Msg(<<>>, <<>>, <<>>, <<>>, <<>>), sender |-> <<>>, key |-> <<>>]

\* ---------------------------------------------------------------- Init
\* the state __init__ leaves: empty maps, nothing on disk
InitStores ==
    /\ now = 0
    /\ image_cache = <<>>
    /\ conversations = <<>>
    /\ conversation_timestamps = <<>>
    /\ last_images = <<>>
    /\ files = <<>>
    /\ nextId = 1
    /\ lost = 0
    /\ ev = Quiet

Init == InitStores /\ gw = GwIdle /\ rs = RsIdle /\ sw = SwIdle /\ lk = LkIdle /\ th = ThIdle /\ rt = RtIdle

\* ---------------------------------------------------------------- environment
Tick(env) ==
    /\ now + TickStep <= env.limit
    /\ now' = now + TickStep
    /\ ev' = Quiet
    /\ UNCHANGED <<image_cache, conversations, conversation_timestamps, last_images,
                   files, nextId, lost, gw, rs, sw, lk, th, rt>>

\* a stored file disappears from the storage directory (os.path.exists turns false)
FileLost ==
    \E p \in DOMAIN files :
        /\ lost < MaxLost
        /\ files' = Without(files, p)
        /\ lost' = lost + 1
        /\ ev' = Quiet
        /\ UNCHANGED <<now, image_cache, conversations, conversation_timestamps,
                       last_images, nextId, gw, rs, sw, lk, th, rt>>

\* ---------------------------------------------------------------- on_handle_context
\* Every handler starts with _cleanup_expired_conversations and
\* _cleanup_image_cache; the night-time file sweep that follows needs more than
\* 6 hours since the last one.

\* context.type == IMAGE: _handle_image_message
ImageMessage(env) ==
    \E ctx \in env.ctxs : \E payload \in Payloads(ctx) :
        LET cache_key == CacheKey(ctx.isgroup, ctx.session_id, ctx.msg)
            swept == _cleanup_image_cache(image_cache, now)
        IN  /\ image_cache' =
                  IF ValidPayload(payload)
                  THEN CachePut(swept, cache_key,
                                [key |-> cache_key, content |-> payload, timestamp |-> now])
                  ELSE swept
            /\ conversations' = SweptConversations(now)
            /\ conversation_timestamps' = SweptTimestamps(now)
            /\ last_images' = SweptLastImages(now)
            /\ ev' = [Event("image",
                            Who(cache_key, ResolveSender(ctx.isgroup, ctx.session_id, ctx.msg)),
                            IF ValidPayload(payload) THEN "cached" ELSE "rejected",
                            NoResponse, <<>>, <<>>, "CONTINUE")
                         EXCEPT !.payload = payload]
            /\ UNCHANGED <<now, files, nextId, lost, gw, rs, sw, lk, th, rt>>

\* the modification times the file system gives the files a handler writes; they
\* are followed only where the file sweeper runs next to the handlers
Stamped(fs) ==
    IF sw.fn # "tracked" THEN sw
    ELSE [sw EXCEPT !.dir = [p \in DOMAIN fs |->
                                IF p \in DOMAIN sw.dir THEN sw.dir[p]
                                ELSE DirEntry(FALSE, now)]]

\* "if self.auto_edit and conversation_key in self.conversations": the text is
\* the prompt of an edit of the key's last image
ContinueEdit(ctx, content, resp, cap) ==
    LET key == ctx.session_id
        last == ResolveLastImage(files, SweptLastImages(now), key)
        image_data == Some(files[last[1]])
        history == SweptConversations(now)[key]
        res == _edit_image(image_data, resp)
        call == Call("edit", content, image_data, history)
        new_image_path == Path("gemini", nextId)
        user_message == Turn("user", <<TextOf(content), ImageUrl(last[1])>>)
        assistant_message ==
            Turn("model", <<TextOf(TextOr(res.text, EditedDefault)),
                            ImageUrl(new_image_path)>>)
    IN  /\ nextId <= cap
        /\ image_cache' = _cleanup_image_cache(image_cache, now)
        /\ IF last # None /\ TruthyBytes(res.image)
           THEN /\ files' = WriteFile(files, new_image_path, res.image[1])
                /\ nextId' = nextId + 1
                /\ last_images' = With(SweptLastImages(now), key, Single(new_image_path))
                /\ conversations' =
                      With(SweptConversations(now), key,
                           StoredAfterTruncate(
                               Append(Append(history, user_message), assistant_message)))
                /\ conversation_timestamps' = With(SweptTimestamps(now), key, now)
                /\ ev' = Event("continue", Commander(ctx), "success", resp, <<call>>,
                               <<"processing", "text", "image">>, "BREAK_PASS")
           ELSE /\ conversations' = SweptConversations(now)
                /\ conversation_timestamps' = SweptTimestamps(now)
                /\ last_images' = SweptLastImages(now)
                /\ UNCHANGED <<files, nextId>>
                /\ ev' = IF last = None
                         THEN Event("continue", Commander(ctx), "no_last_image", NoResponse,
                                    <<>>, <<"no_last_image">>, "BREAK_PASS")
                         ELSE Event("continue", Commander(ctx), "failed", resp, <<call>>,
                                    <<"processing",
                                      IF TruthyText(res.text) THEN "fail_text" ELSE "fail">>,
                                    "BREAK_PASS")
        /\ sw' = Stamped(files')
        /\ UNCHANGED <<now, lost, gw, rs, lk, th, rt>>

\* a text that matches no command: continued as an edit when auto_edit is set
\* and the key has a conversation, else left to the other plugins
OtherRun(ctx, content, resp, env) ==
    IF env.auto_edit /\ ctx.session_id \in DOMAIN SweptConversations(now)
    THEN ContinueEdit(ctx, content, resp, env.cap)
    ELSE /\ image_cache' = _cleanup_image_cache(image_cache, now)
         /\ conversations' = SweptConversations(now)
         /\ conversation_timestamps' = SweptTimestamps(now)
         /\ last_images' = SweptLastImages(now)
         /\ ev' = Event("other", Commander(ctx), "ignored", NoResponse,
                        <<>>, <<>>, "CONTINUE")
         /\ UNCHANGED <<now, files, nextId, lost, gw, rs, sw, lk, th, rt>>

OtherMessage(env) ==
    \E ctx \in env.ctxs, txt \in TextsWith(env.prompts), resp \in env.resps :
        /\ Dispatch(txt) = "none"
        /\ OtherRun(ctx, txt.prompt, resp, env)

ExitClearedForAll(f, key, active) == IF active THEN <<>> ELSE f
ExitKeeps(f, key, active) == f

\* "if key in d: del d[key]" of an exit that found an active session
ExitCleared(f, key, active) == IF active THEN Without(f, key) ELSE f

\* the exit command: "if conversation_key in self.conversations"
ExitRun(ctx) ==
    LET key == ctx.session_id
        active == key \in DOMAIN SweptConversations(now)
    IN  /\ image_cache' = _cleanup_image_cache(image_cache, now)
        /\ conversations' = Without(SweptConversations(now), key)
        /\ conversation_timestamps' = ExitCleared(SweptTimestamps(now), key, active)
        /\ last_images' = ExitCleared(SweptLastImages(now), key, active)
        /\ ev' = Event("exit", Commander(ctx), IF active THEN "ended" ELSE "no_session",
                       NoResponse, <<>>,
                       <<IF active THEN "ended" ELSE "no_session">>, "BREAK_PASS")
        /\ UNCHANGED <<now, files, nextId, lost, gw, rs, sw, lk, th, rt>>

\* content in self.exit_commands
ExitCommand(env) ==
    \E ctx \in env.ctxs, txt \in Texts :
        /\ Dispatch(txt) = "exit"
        /\ ExitRun(ctx)

UsageErrorTouching(kind, ctx) ==
    /\ image_cache' = _cleanup_image_cache(image_cache, now)
    /\ conversations' = Touch(SweptConversations(now), ctx.session_id)
    /\ conversation_timestamps' = SweptTimestamps(now)
    /\ last_images' = SweptLastImages(now)
    /\ ev' = Event(kind, Commander(ctx), "usage", NoResponse, <<>>, <<"usage">>, "BREAK_PASS")
    /\ UNCHANGED <<now, files, nextId, lost, gw, rs, sw, lk, th, rt>>

\* the usage error of a generate or edit command with an empty prompt
UsageError(kind, ctx) ==
    /\ image_cache' = _cleanup_image_cache(image_cache, now)
    /\ conversations' = SweptConversations(now)
    /\ conversation_timestamps' = SweptTimestamps(now)
    /\ last_images' = SweptLastImages(now)
    /\ ev' = Event(kind, Commander(ctx), "usage", NoResponse, <<>>, <<"usage">>, "BREAK_PASS")
    /\ UNCHANGED <<now, files, nextId, lost, gw, rs, sw, lk, th, rt>>

\* the number of images of a generate result that are saved
SavedCount(images) == Cardinality({i \in 1..Len(images) : images[i] # None})

\* the reply to a generate or edit that returned no image
FailureReply(texts) ==
    IF AnyText(texts) /\ TruthyTexts(texts) # <<>> THEN "fail_text" ELSE "fail"

\* the replies of a successful generate: per index the text, then the image
RECURSIVE SendAll(_, _, _)
SendAll(images, texts, i) ==
    IF i > Max(Len(images), Len(texts)) THEN <<>>
    ELSE (IF i <= Len(texts) /\ TruthyText(texts[i]) THEN <<"text">> ELSE <<>>)
         \o (IF i <= Len(images) /\ TruthyBytes(images[i]) THEN <<"image">> ELSE <<>>)
         \o SendAll(images, texts, i + 1)

\* content.startswith(cmd) for a cmd of self.commands, with a prompt
GenerateRun(ctx, prompt, resp, cap) ==
    LET key == ctx.session_id
        convs == Touch(SweptConversations(now), key)
        history == convs[key]
        res == _generate_image(resp)
        n == SavedCount(res.images)
        image_paths == [i \in 1..n |-> Path("gemini", nextId + i - 1)]
        temp_paths == [i \in 1..n |-> Path("temp", nextId + n + i - 1)]
        user_messages == [i \in 1..Len(prompt) |-> Turn("user", <<TextOf(<<prompt[i]>>)>>)]
        assistant_messages ==
            [i \in 1..n |->
                Turn("model",
                     <<TextOf(TextOr(IF i <= Len(res.texts) THEN res.texts[i] ELSE None,
                                     GeneratedDefault)),
                       ImageUrl(image_paths[i])>>)]
        written ==
            [p \in DOMAIN files \cup Range(image_paths) \cup Range(temp_paths) |->
                IF p \in DOMAIN files THEN files[p]
                ELSE res.images[CHOOSE i \in 1..n :
                                   image_paths[i] = p \/ temp_paths[i] = p][1]]
        call == Call("generate", prompt, None, history)
    IN  /\ nextId + 2 * n - 1 <= cap
        /\ image_cache' = _cleanup_image_cache(image_cache, now)
        /\ IF res.images # <<>> /\ n > 0
           THEN /\ last_images' = With(SweptLastImages(now), key, PathList(image_paths))
                /\ conversations' =
                      With(convs, key,
                           StoredAfterTruncate(history \o user_messages \o assistant_messages))
                /\ conversation_timestamps' = With(SweptTimestamps(now), key, now)
                /\ files' = written
                /\ nextId' = nextId + 2 * n
                /\ ev' = Event("generate", Commander(ctx), "success", resp, <<call>>,
                               <<"processing">> \o SendAll(res.images, res.texts, 1),
                               "BREAK_PASS")
           ELSE /\ last_images' = SweptLastImages(now)
                /\ conversations' = convs
                /\ conversation_timestamps' = SweptTimestamps(now)
                /\ UNCHANGED <<files, nextId>>
                /\ ev' = IF res.images # <<>>
                         THEN Event("generate", Commander(ctx), "silent", resp, <<call>>,
                                    <<"processing">>, "BREAK_PASS")
                         ELSE Event("generate", Commander(ctx), "failed", resp, <<call>>,
                                    <<"processing", FailureReply(res.texts)>>, "BREAK_PASS")
        /\ sw' = Stamped(files')
        /\ UNCHANGED <<now, lost, gw, rs, lk, th, rt>>

GenerateCommand(env) ==
    \E ctx \in env.ctxs, txt \in TextsWith(env.prompts), resp \in env.resps :
        /\ Dispatch(txt) = "generate"
        /\ IF txt.prompt = <<>> THEN UsageError("generate", ctx)
           ELSE GenerateRun(ctx, txt.prompt, resp, env.cap)

EditWithoutInboxReplying(ctx) ==
    /\ image_cache' = _cleanup_image_cache(image_cache, now)
    /\ conversations' = SweptConversations(now)
    /\ conversation_timestamps' = SweptTimestamps(now)
    /\ last_images' = SweptLastImages(now)
    /\ ev' = Event("edit", Commander(ctx), "no_image", NoResponse, <<>>,
                   <<"no_image">>, "BREAK_PASS")
    /\ UNCHANGED <<now, files, nextId, lost, gw, rs, sw, lk, th, rt>>

\* the edit command when _get_recent_image found nothing: the "if not image_data"
\* block ends in "e_context.action = BREAK_PASS; return" on both of its branches
EditWithoutInbox(ctx) ==
    LET key == ctx.session_id
        last == ResolveLastImage(files, SweptLastImages(now), key)
    IN  /\ image_cache' = _cleanup_image_cache(image_cache, now)
        /\ conversations' = SweptConversations(now)
        /\ conversation_timestamps' = SweptTimestamps(now)
        /\ last_images' = SweptLastImages(now)
        /\ ev' = IF last # None
                 THEN Event("edit", Commander(ctx), "returned", NoResponse, <<>>, <<>>, "BREAK_PASS")
                 ELSE Event("edit", Commander(ctx), "no_image", NoResponse, <<>>,
                            <<"no_image">>, "BREAK_PASS")
        /\ UNCHANGED <<now, files, nextId, lost, gw, rs, sw, lk, th, rt>>

\* the edit command with an inbox image as the source
EditWithInbox(ctx, prompt, resp, image_data, cap) ==
    LET key == ctx.session_id
        image_path == Path("temp", nextId)
        edited_image_path == Path("edited", nextId + 1)
        saved == WriteFile(files, image_path, image_data[1])
        tracked == With(SweptLastImages(now), key, Single(image_path))
        convs == Touch(SweptConversations(now), key)
        history == convs[key]
        res == _edit_image(image_data, resp)
        call == Call("edit", prompt, image_data, history)
        user_message == Turn("user", <<TextOf(prompt), ImageUrl(image_path)>>)
        assistant_message ==
            Turn("model", <<TextOf(TextOr(res.text, EditedDefault)),
                            ImageUrl(edited_image_path)>>)
    IN  /\ nextId + 1 <= cap
        /\ image_cache' = _cleanup_image_cache(image_cache, now)
        /\ IF TruthyBytes(res.image)
           THEN /\ files' = WriteFile(saved, edited_image_path, res.image[1])
                /\ nextId' = nextId + 2
                /\ last_images' = With(tracked, key, Single(edited_image_path))
                /\ conversations' =
                      With(convs, key,
                           StoredAfterTruncate(
                               Append(Append(history, user_message), assistant_message)))
                /\ conversation_timestamps' = With(SweptTimestamps(now), key, now)
                /\ ev' = Event("edit", Commander(ctx), "success", resp, <<call>>,
                               <<"processing", "text", "image">>, "BREAK_PASS")
           ELSE /\ files' = saved
                /\ nextId' = nextId + 1
                /\ last_images' = tracked
                /\ conversations' = convs
                /\ conversation_timestamps' = SweptTimestamps(now)
                /\ ev' = Event("edit", Commander(ctx), "failed", resp, <<call>>,
                               <<"processing",
                                 IF TruthyText(res.text) THEN "fail_text" ELSE "fail">>,
                               "BREAK_PASS")
        /\ sw' = Stamped(files')
        /\ UNCHANGED <<now, lost, gw, rs, lk, th, rt>>

\* the edit command with a prompt: the inbox image first
EditRun(ctx, prompt, resp, cap) ==
    LET key == ctx.session_id
        image_data == _get_recent_image(_cleanup_image_cache(image_cache, now), now, key)
    IN  IF TruthyBytes(image_data)
        THEN EditWithInbox(ctx, prompt, resp, image_data, cap)
        ELSE EditWithoutInbox(ctx)

\* content.startswith(cmd) for a cmd of self.edit_commands
EditCommand(env) ==
    \E ctx \in env.ctxs, txt \in TextsWith(env.prompts), resp \in env.resps :
        /\ Dispatch(txt) = "edit"
        /\ IF txt.prompt = <<>> THEN UsageError("edit", ctx)
           ELSE EditRun(ctx, txt.prompt, resp, env.cap)

\* ---------------------------------------------------------------- specifications
\* An environment: who sends, what prompts and gateway responses occur, how far
\* the clock runs, how many files are written, and the plugin's auto_edit flag.
Environment(ctxs, prompts, resps, limit, cap, auto_edit) ==
    [ctxs |-> ctxs, prompts |-> prompts, resps |-> resps, limit |-> limit, cap |-> cap,
     auto_edit |-> auto_edit]

Handlers(env) ==
    \/ ImageMessage(env)
    \/ OtherMessage(env)
    \/ ExitCommand(env)
    \/ GenerateCommand(env)
    \/ EditCommand(env)

\* Spec: a direct chat and a group chat that share a sender
TwoChats ==
    Environment({DirectCtx("u1"), GroupCtx("g", "u1")}, {Words(0), Words(1)},
                {ErrResponse("timeout"),
                 OkResponse("STOP", <<TextPart(TextA), ImagePart(Some(ImageX))>>)},
                ShortTime, ChatFiles, FALSE)

Next == Tick(TwoChats) \/ FileLost \/ Handlers(TwoChats)

Spec == Init /\ [][Next]_vars

\* SpecSession: one direct chat, followed past both expiry deadlines
OneChat ==
    Environment({DirectCtx("u1")}, Prompts,
                {ErrResponse("timeout"),
                 OkResponse("STOP", <<TextPart(TextA), ImagePart(Some(ImageX))>>),
                 OkResponse("STOP", <<ImagePart(Some(ImageX)), ImagePart(Some(ImageY))>>)},
                MaxTime, MaxFiles, FALSE)

NextSession == Tick(OneChat) \/ FileLost \/ Handlers(OneChat)

SpecSession == Init /\ [][NextSession]_vars

\* SpecGateway: _generate_image and _edit_image on every response of at most
\* MaxParts parts
PartValues ==
    { TextPart(TextA), TextPart(TextB), TextPart(<<>>),
      ImagePart(Some(ImageX)), ImagePart(Some(ImageY)), ImagePart(Some(EmptyBytes)),
      ImagePart(None) }

RECURSIVE PartLists(_)
PartLists(n) ==
    IF n = 0 THEN {<<>>}
    ELSE PartLists(n - 1)
         \cup {Append(ps, p) : ps \in {q \in PartLists(n - 1) : Len(q) = n - 1},
                               p \in PartValues}

Responses ==
    {ErrResponse(e) : e \in {"ssl", "connection", "timeout", "other"}}
    \cup {HttpResponse(500), HttpResponse(200)}
    \cup {OkResponse(r, ps) : r \in {"STOP", "IMAGE_SAFETY"}, ps \in PartLists(MaxParts)}

Request(resp, source) ==
    [fn |-> "request", resp |-> resp, source |-> source,
     images |-> <<>>, texts |-> <<>>, image |-> None, text |-> None]

InitGateway ==
    /\ InitStores
    /\ rs = RsIdle
    /\ sw = SwIdle
    /\ lk = LkIdle
    /\ th = ThIdle /\ rt = RtIdle
    /\ gw \in {Request(resp, source) : resp \in Responses, source \in {Some(ImageY)}}

GatewayGenerate ==
    /\ gw.fn = "request"
    /\ gw' = [gw EXCEPT !.fn = "generate",
                        !.images = _generate_image(gw.resp).images,
                        !.texts = _generate_image(gw.resp).texts]
    /\ UNCHANGED <<now, image_cache, conversations, conversation_timestamps,
                   last_images, files, nextId, lost, ev, rs, sw, lk, th, rt>>

GatewayEdit ==
    /\ gw.fn = "request"
    /\ gw' = [gw EXCEPT !.fn = "edit",
                        !.image = _edit_image(gw.source, gw.resp).image,
                        !.text = _edit_image(gw.source, gw.resp).text]
    /\ UNCHANGED <<now, image_cache, conversations, conversation_timestamps,
                   last_images, files, nextId, lost, ev, rs, sw, lk, th, rt>>

NextGateway == GatewayGenerate \/ GatewayEdit

SpecGateway == InitGateway /\ [][NextGateway]_vars

\* SpecResolver: the sender id and cache key of _handle_image_message on every
\* choice of the five candidate fields
Candidates == {<<>>, <<"g">>, <<"u1">>, <<"u2">>}
Messages ==
    {Msg(a, f, s, w, d) : a \in Candidates, f \in Candidates, s \in Candidates,
                          w \in Candidates, d \in Candidates}

InitResolver ==
    /\ InitStores
    /\ gw = GwIdle
    /\ sw = SwIdle
    /\ lk = LkIdle
    /\ th = ThIdle /\ rt = RtIdle
    /\ rs \in {[RsIdle EXCEPT !.is_group = grp, !.session_id = sid, !.msg = m] :
                  grp \in BOOLEAN, sid \in {<<"g">>}, m \in Messages}

Resolve ==
    /\ ~rs.done
    /\ rs' = [rs EXCEPT !.done = TRUE,
                        !.sender = ResolveSender(rs.is_group, rs.session_id, rs.msg),
                        !.key = CacheKey(rs.is_group, rs.session_id, rs.msg)]
    /\ UNCHANGED <<now, image_cache, conversations, conversation_timestamps,
                   last_images, files, nextId, lost, ev, gw, sw, lk, th, rt>>

NextResolver == Resolve

SpecResolver == InitResolver /\ [][NextResolver]_vars

\* SpecGroup: two senders in one group chat; the gateway answers with an image,
\* with a text and an image of no bytes, with a text only, with status 500 or
\* not at all
TwoSenders ==
    Environment({GroupCtx("g", "u1"), GroupCtx("g", "u2")}, {Words(0), Words(1)},
                {OkResponse("STOP", <<TextPart(TextA), ImagePart(Some(ImageX))>>),
                 OkResponse("STOP", <<TextPart(TextA), ImagePart(Some(EmptyBytes))>>),
                 OkResponse("STOP", <<TextPart(TextA)>>),
                 HttpResponse(500), ErrResponse("timeout")},
                TickStep, ChatFiles, FALSE)

NextGroup == Tick(TwoSenders) \/ FileLost \/ Handlers(TwoSenders)

SpecGroup == Init /\ [][NextGroup]_vars

\* SpecExpiry: events that start with _cleanup_expired_conversations, from every
\* combination of two keys that each have no entry, an empty history (a failed
\* generate), an empty history and an artifact (a failed edit), or a session of
\* one edit that is ExpirySpread seconds around the expiry old
ExpiryNow == conversation_expiry + ExpirySpread

ExpiryStates(base) ==
    {[history |-> None, stamp |-> None, artifact |-> None, written |-> {}],
     [history |-> Some(<<>>), stamp |-> None, artifact |-> None, written |-> {}],
     [history |-> Some(<<>>), stamp |-> None,
      artifact |-> Some(Single(Path("temp", base))), written |-> {Path("temp", base)}]}
    \cup {[history |-> Some(<<Turn("user", <<TextOf(Words(1)), ImageUrl(Path("temp", base))>>),
                              Turn("model", <<TextOf(EditedDefault),
                                              ImageUrl(Path("edited", base + 1))>>)>>),
           stamp |-> Some(ExpiryNow - conversation_expiry - d),
           artifact |-> Some(Single(Path("edited", base + 1))),
           written |-> {Path("temp", base), Path("edited", base + 1)}] :
             d \in (0 - ExpirySpread)..ExpirySpread}

InitExpiry ==
    \E su \in ExpiryStates(1), sg \in ExpiryStates(3) :
        LET st == (<<"u1">> :> su) @@ (<<"g">> :> sg)
        IN  /\ now = ExpiryNow
            /\ image_cache = <<>>
            /\ conversations = [k \in {x \in DOMAIN st : st[x].history # None} |-> st[k].history[1]]
            /\ conversation_timestamps =
                  [k \in {x \in DOMAIN st : st[x].stamp # None} |-> st[k].stamp[1]]
            /\ last_images = [k \in {x \in DOMAIN st : st[x].artifact # None} |-> st[k].artifact[1]]
            /\ files = [p \in su.written \cup sg.written |-> ImageX]
            /\ nextId = 5
            /\ lost = 0
            /\ ev = Quiet
            /\ gw = GwIdle
            /\ rs = RsIdle
            /\ sw = SwIdle
            /\ lk = LkIdle
            /\ th = ThIdle /\ rt = RtIdle

NextExpiry == OtherMessage(TwoChats) \/ ImageMessage(TwoChats) \/ ExitCommand(TwoChats)

SpecExpiry == InitExpiry /\ [][NextExpiry]_vars

\* SpecSweeper: one run of _cleanup_temp_files on every small storage directory
\* and Last-Artifact Tracker, at a time when a file written at 0 is just older
\* than the maximum age
SweepTime == max_age_hours * SecondsPerHour + 1

DirNames == {Path("gemini", 1), Path("edited", 2), Path("temp", 3), Path("upload", 4)}

DirEntries == {DirEntry(TRUE, 0)} \cup {DirEntry(FALSE, t) : t \in 0..SweepSpread}

Directories ==
    UNION {[names -> DirEntries] : names \in SUBSET DirNames}

Artifacts ==
    {Single(Path("edited", 2)), Single(Path("temp", 3)),
     PathList(<<Path("gemini", 1)>>), PathList(<<Path("gemini", 1), Path("temp", 3)>>)}

Trackers ==
    UNION {[keys -> Artifacts] : keys \in SUBSET {<<"u1">>, <<"g">>}}

InitSweeper ==
    /\ now = SweepTime
    /\ image_cache = <<>>
    /\ conversations = <<>>
    /\ conversation_timestamps = <<>>
    /\ last_images \in Trackers
    /\ files = <<>>
    /\ nextId = 1
    /\ lost = 0
    /\ ev = Quiet
    /\ gw = GwIdle
    /\ rs = RsIdle
    /\ lk = LkIdle
    /\ th = ThIdle /\ rt = RtIdle
    /\ sw \in {[fn |-> "listed", before |-> dir, dir |-> dir] : dir \in Directories}

Sweep ==
    /\ sw.fn = "listed"
    /\ sw' = [sw EXCEPT !.fn = "swept",
                        !.dir = _cleanup_temp_files(sw.dir, last_images, now)]
    /\ UNCHANGED <<now, image_cache, conversations, conversation_timestamps,
                   last_images, files, nextId, lost, ev, gw, rs, lk, th, rt>>

NextSweeper == Sweep

SpecSweeper == InitSweeper /\ [][NextSweeper]_vars

\* SpecLookup: _get_recent_image on every cache of at most MaxCache entries
\* that are just fresh or just expired, for a one-part and a two-part key
LookupNow == image_cache_timeout + CacheSpread

LookupKeys == {<<"g">>, <<"u1">>, <<"g", "u1">>, <<"u1", "g">>}

\* the entry _handle_image_message stores: a non-empty list of valid buffers
StoredEntry(key, t) ==
    [key |-> key,
     content |-> <<Bytes(<<"P">> \o key, MinImageBytes + 1, TRUE),
                   Bytes(<<"Q">> \o key, MinImageBytes + 1, TRUE)>>,
     timestamp |-> t]

RECURSIVE Caches(_)
Caches(n) ==
    IF n = 0 THEN {<<>>}
    ELSE Caches(n - 1)
         \cup {Append(c, StoredEntry(k, LookupNow - image_cache_timeout - d)) :
                  c \in {x \in Caches(n - 1) : Len(x) = n - 1},
                  k \in LookupKeys, d \in 0..CacheSpread}

InitLookup ==
    /\ now = LookupNow
    /\ image_cache \in {c \in Caches(MaxCache) :
                           \A i, j \in 1..Len(c) : c[i].key = c[j].key => i = j}
    /\ conversations = <<>>
    /\ conversation_timestamps = <<>>
    /\ last_images = <<>>
    /\ files = <<>>
    /\ nextId = 1
    /\ lost = 0
    /\ ev = Quiet
    /\ gw = GwIdle
    /\ rs = RsIdle
    /\ sw = SwIdle
    /\ th = ThIdle /\ rt = RtIdle
    /\ lk \in {[LkIdle EXCEPT !.fn = "asked", !.key = k] : k \in {<<"g">>, <<"g", "u1">>}}

GetRecentImage ==
    /\ lk.fn = "asked"
    /\ lk' = [lk EXCEPT !.fn = "answered",
                        !.result = _get_recent_image(image_cache, now, lk.key)]
    /\ UNCHANGED <<now, image_cache, conversations, conversation_timestamps,
                   last_images, files, nextId, lost, ev, gw, rs, sw, th, rt>>

NextLookup == GetRecentImage

SpecLookup == InitLookup /\ [][NextLookup]_vars

\* SpecThreads: Threads handler threads, each running on_handle_context for an
\* inbound image of its own session, on one plugin object without a lock. A
\* step is what one thread does between two points where the interpreter can
\* switch threads: creating the dict iterator, one next() of it with the loop
\* body, one del, the final store.
\* The dict is kept as CPython keeps it between two resizes: a table of slots in
\* insertion order, a deleted key leaving an empty slot; image_cache is the
\* entries in it.
ThreadCtxs == <<DirectCtx("u1"), GroupCtx("g", "u2"), GroupCtx("g", "u1")>>
ThreadKey(tid) ==
    CacheKey(ThreadCtxs[tid].isgroup, ThreadCtxs[tid].session_id, ThreadCtxs[tid].msg)

Live(slots) ==
    LET full == SelectSeq(slots, LAMBDA s : s # None)
    IN  [i \in 1..Len(full) |-> full[i][1]]

\* the slot that holds the key, 0 when there is none
SlotOf(slots, key) ==
    IF \E i \in 1..Len(slots) : slots[i] # None /\ slots[i][1].key = key
    THEN CHOOSE i \in 1..Len(slots) : slots[i] # None /\ slots[i][1].key = key
    ELSE 0

Entered == [pc |-> "enter", used |-> 0, pos |-> 1, expired_keys |-> <<>>]

InitThreads ==
    /\ now = LookupNow
    /\ image_cache \in {c \in Caches(Threads) :
                           \A i, j \in 1..Len(c) : c[i].key = c[j].key => i = j}
    /\ conversations = <<>>
    /\ conversation_timestamps = <<>>
    /\ last_images = <<>>
    /\ files = <<>>
    /\ nextId = 1
    /\ lost = 0
    /\ ev = Quiet
    /\ gw = GwIdle
    /\ rs = RsIdle
    /\ sw = SwIdle
    /\ lk = LkIdle
    /\ th = [pc |-> "running",
             slots |-> [i \in 1..Len(image_cache) |-> Some(image_cache[i])],
             thread |-> [tid \in 1..Threads |-> Entered]]
    /\ rt = RtIdle

ThreadStep(tid, slots, thread) ==
    /\ th' = [th EXCEPT !.slots = slots, !.thread[tid] = thread]
    /\ image_cache' = Live(slots)
    /\ UNCHANGED <<now, conversations, conversation_timestamps, last_images, files,
                   nextId, lost, ev, gw, rs, sw, lk, rt>>

\* _cleanup_image_cache: "for key, cache_data in self.image_cache.items()"
\* creates the iterator, which notes the number of entries
CleanupIter(tid) ==
    LET me == th.thread[tid]
    IN  /\ me.pc = "enter"
        /\ ThreadStep(tid, th.slots,
                      [me EXCEPT !.pc = "iterate", !.used = Len(Live(th.slots))])

\* one next() of the iterator: RuntimeError("dictionary changed size during
\* iteration") when the number of entries is not the noted one, else the next
\* full slot; the error leaves on_handle_context, nothing catches it
CleanupNext(tid) ==
    LET me == th.thread[tid]
        ahead == {i \in me.pos..Len(th.slots) : th.slots[i] # None}
        at == CHOOSE i \in ahead : \A j \in ahead : i <= j
    IN  /\ me.pc = "iterate"
        /\ ThreadStep(tid, th.slots,
              IF Len(Live(th.slots)) # me.used
              THEN [me EXCEPT !.pc = "RuntimeError"]
              ELSE IF ahead = {}
              THEN [me EXCEPT !.pc = "delete"]
              ELSE [me EXCEPT !.pos = at + 1,
                              !.expired_keys =
                                  IF CacheExpired(th.slots[at][1], now)
                                  THEN Append(@, th.slots[at][1].key) ELSE @])

\* "for key in expired_keys: del self.image_cache[key]": KeyError when the key
\* is gone
CleanupDel(tid) ==
    LET me == th.thread[tid]
        key == Head(me.expired_keys)
        at == SlotOf(th.slots, key)
    IN  /\ me.pc = "delete"
        /\ IF me.expired_keys = <<>>
           THEN ThreadStep(tid, th.slots, [me EXCEPT !.pc = "handle"])
           ELSE IF at = 0
           THEN ThreadStep(tid, th.slots, [me EXCEPT !.pc = "KeyError"])
           ELSE ThreadStep(tid, [th.slots EXCEPT ![at] = None],
                           [me EXCEPT !.expired_keys = Tail(@)])

\* _handle_image_message: self.image_cache[cache_key] = {...}
ThreadPut(tid) ==
    LET me == th.thread[tid]
        entry == StoredEntry(ThreadKey(tid), now)
        at == SlotOf(th.slots, ThreadKey(tid))
    IN  /\ me.pc = "handle"
        /\ ThreadStep(tid,
                      IF at = 0 THEN Append(th.slots, Some(entry))
                      ELSE [th.slots EXCEPT ![at] = Some(entry)],
                      [me EXCEPT !.pc = "done"])

NextThreads ==
    \E tid \in 1..Threads :
        CleanupIter(tid) \/ CleanupNext(tid) \/ CleanupDel(tid) \/ ThreadPut(tid)

SpecThreads == InitThreads /\ [][NextThreads]_vars

\* SpecRetention: the file sweeper next to the handlers of one direct chat,
\* from the state that LongRun successful generate commands leave, sent one
\* every conversation_expiry seconds from time 0 on: the session has never
\* expired, each command has appended a user and a model turn and written the
\* saved image and its send copy, and the oldest files are max_age_hours old
KeptAlive(n) ==
    [now |-> (n - 1) * conversation_expiry,
     history |-> [i \in 1..(2 * n) |->
                     IF i % 2 = 1 THEN Turn("user", <<TextOf(Words(1))>>)
                     ELSE Turn("model", <<TextOf(TextA), ImageUrl(Path("gemini", i - 1))>>)],
     last |-> PathList(<<Path("gemini", 2 * n - 1)>>),
     dir |-> [p \in {Path("gemini", 2 * i - 1) : i \in 1..n}
                    \cup {Path("temp", 2 * i) : i \in 1..n} |->
                 DirEntry(FALSE, ((p.id + 1) \div 2 - 1) * conversation_expiry)]]

InitRetention ==
    LET run == KeptAlive(LongRun)
    IN  /\ now = run.now
        /\ image_cache = <<>>
        /\ conversations = (<<"u1">> :> run.history)
        /\ conversation_timestamps = (<<"u1">> :> run.now)
        /\ last_images = (<<"u1">> :> run.last)
        /\ files = [p \in DOMAIN run.dir |-> ImageX]
        /\ nextId = 2 * LongRun + 1
        /\ lost = 0
        /\ ev = Quiet
        /\ gw = GwIdle
        /\ rs = RsIdle
        /\ sw = [fn |-> "tracked", before |-> <<>>, dir |-> run.dir]
        /\ lk = LkIdle
        /\ th = ThIdle /\ rt = RtIdle

\* a run of _cleanup_temp_files, by the cleanup thread or by the night-time
\* branch of on_handle_context
FileSweep ==
    /\ sw.fn = "tracked"
    /\ sw' = [sw EXCEPT !.dir = _cleanup_temp_files(sw.dir, last_images, now)]
    /\ files' = Restrict(files, DOMAIN files \cap DOMAIN sw'.dir)
    /\ ev' = Quiet
    /\ UNCHANGED <<now, image_cache, conversations, conversation_timestamps,
                   last_images, nextId, lost, gw, rs, lk, th, rt>>

LongChat ==
    Environment({DirectCtx("u1")}, {Words(1)},
                {ErrResponse("timeout"),
                 OkResponse("STOP", <<TextPart(TextA), ImagePart(Some(ImageX))>>)},
                LongRun * conversation_expiry, 2 * LongRun + 2, FALSE)

NextRetention == Tick(LongChat) \/ FileSweep \/ Handlers(LongChat)

SpecRetention == InitRetention /\ [][NextRetention]_vars

\* SpecContinuation: one direct chat on a plugin object whose auto_edit
\* attribute is set. __init__ assigns False and nothing in the plugin assigns
\* it again, so the attribute is set from outside; every other specification
\* runs with the value __init__ gives it.
Continuing ==
    Environment({DirectCtx("u1")}, {Words(1)},
                {ErrResponse("timeout"),
                 OkResponse("STOP", <<TextPart(TextA), ImagePart(Some(ImageX))>>),
                 OkResponse("STOP", <<ImagePart(Some(ImageX)), ImagePart(Some(ImageY))>>)},
                TickStep, MaxFiles + 1, TRUE)

NextContinuation == Tick(Continuing) \/ FileLost \/ Handlers(Continuing)

SpecContinuation == Init /\ [][NextContinuation]_vars

\* SpecLifetime: one direct chat followed past the expiry of its session, with
\* the modification times of the files it writes (the result files gemini_*
\* and edited_* are written by successful commands only)
Lifetime ==
    Environment({DirectCtx("u1")}, {Words(1)},
                {ErrResponse("timeout"),
                 OkResponse("STOP", <<TextPart(TextA), ImagePart(Some(ImageX))>>)},
                MaxTime, MaxFiles, FALSE)

InitLifetime ==
    /\ InitStores
    /\ gw = GwIdle /\ rs = RsIdle /\ lk = LkIdle /\ th = ThIdle /\ rt = RtIdle
    /\ sw = [fn |-> "tracked", before |-> <<>>, dir |-> <<>>]

NextLifetime == Tick(Lifetime) \/ Handlers(Lifetime)

SpecLifetime == InitLifetime /\ [][NextLifetime]_vars

\* SpecDispatch: the matching of the text of a message against the configured
\* command lists, on every text of at most MaxText characters, and the handler
\* the matching leads to
Chars == {"g", "x", " "}
Contents == UNION {[1..n -> Chars] : n \in 0..MaxText}

\* the command lists of the configuration: lists in which no generate command
\* starts an edit command or an exit command, as in the default lists; a
\* generate command that starts the edit command and the exit command; an edit
\* command that is also an exit command
Config(commands, edit_commands, exit_commands) ==
    [commands |-> commands, edit_commands |-> edit_commands,
     exit_commands |-> exit_commands]
Configs ==
    {Config(<<<<"g">>, <<"g", "g">>>>, <<<<"x", "g">>>>, <<<<"x", "x">>, <<"x">>>>),
     Config(<<<<"g">>>>, <<<<"g", "x">>>>, <<<<"g", "g">>>>),
     Config(<<<<"g">>>>, <<<<"x">>>>, <<<<"x">>>>)}

\* str.strip()
RECURSIVE LStrip(_)
LStrip(s) == IF s # <<>> /\ Head(s) = " " THEN LStrip(Tail(s)) ELSE s
RECURSIVE RStrip(_)
RStrip(s) ==
    IF s # <<>> /\ s[Len(s)] = " " THEN RStrip(SubSeq(s, 1, Len(s) - 1)) ELSE s
Strip(s) == RStrip(LStrip(s))

\* str.startswith(cmd)
StartsWith(s, cmd) == Len(cmd) <= Len(s) /\ SubSeq(s, 1, Len(cmd)) = cmd

\* str.split(): the words between the blanks
RECURSIVE Split(_)
Split(s) ==
    IF s = <<>> THEN <<>>
    ELSE IF Head(s) = " " THEN Split(Tail(s))
    ELSE LET stops == {i \in 1..Len(s) : s[i] = " "}
             n == IF stops = {} THEN Len(s)
                  ELSE (CHOOSE i \in stops : \A j \in stops : i <= j) - 1
         IN  <<SubSeq(s, 1, n)>> \o Split(SubSeq(s, n + 1, Len(s)))

\* "for cmd in cmds: if content.startswith(cmd)": the first command that matches
FirstCommand(content, cmds) ==
    LET hits == {i \in 1..Len(cmds) : StartsWith(content, cmds[i])}
    IN  IF hits = {} THEN None ELSE Some(cmds[CHOOSE i \in hits : \A j \in hits : i <= j])

\* content[len(cmd):].strip()
PromptAfter(content, cmd) == Strip(SubSeq(content, Len(cmd) + 1, Len(content)))

Routed(intent, prompt) == [intent |-> intent, prompt |-> prompt]

RouteEditFirst(cfg, raw) ==
    LET content == Strip(raw)
        generate == FirstCommand(content, cfg.commands)
        edit == FirstCommand(content, cfg.edit_commands)
    IN  IF \E i \in 1..Len(cfg.exit_commands) : cfg.exit_commands[i] = content
        THEN Routed("exit", <<>>)
        ELSE IF edit # None THEN Routed("edit", PromptAfter(content, edit[1]))
        ELSE IF generate # None THEN Routed("generate", PromptAfter(content, generate[1]))
        ELSE Routed("none", content)

\* the checks of on_handle_context on a text, in their order
Route(cfg, raw) ==
    LET content == Strip(raw)
        generate == FirstCommand(content, cfg.commands)
        edit == FirstCommand(content, cfg.edit_commands)
    IN  IF \E i \in 1..Len(cfg.exit_commands) : cfg.exit_commands[i] = content
        THEN Routed("exit", <<>>)
        ELSE IF generate # None THEN Routed("generate", PromptAfter(content, generate[1]))
        ELSE IF edit # None THEN Routed("edit", PromptAfter(content, edit[1]))
        ELSE Routed("none", content)

InitDispatch ==
    /\ InitStores
    /\ gw = GwIdle /\ rs = RsIdle /\ sw = SwIdle /\ lk = LkIdle /\ th = ThIdle
    /\ \E cfg \in Configs :
          rt = [RtIdle EXCEPT !.commands = cfg.commands,
                              !.edit_commands = cfg.edit_commands,
                              !.exit_commands = cfg.exit_commands]

\* a text message arrives: context.content
ReceiveText ==
    \E raw \in Contents :
        /\ rt' = [rt EXCEPT !.content = raw,
                            !.intent = Route(rt, raw).intent,
                            !.prompt = Route(rt, raw).prompt]
        /\ ev' = Quiet
        /\ UNCHANGED <<now, image_cache, conversations, conversation_timestamps,
                       last_images, files, nextId, lost, gw, rs, sw, lk, th>>

\* on_handle_context on the text that arrived; of the prompt the handlers are
\* given the number of its words
TextMessage(env) ==
    \E ctx \in env.ctxs, resp \in env.resps :
        LET prompt == Words(Len(Split(rt.prompt)))
        IN  CASE rt.intent = "exit" -> ExitRun(ctx)
              [] rt.intent = "generate" ->
                    IF rt.prompt = <<>> THEN UsageError("generate", ctx)
                    ELSE GenerateRun(ctx, prompt, resp, env.cap)
              [] rt.intent = "edit" ->
                    IF rt.prompt = <<>> THEN UsageError("edit", ctx)
                    ELSE EditRun(ctx, prompt, resp, env.cap)
              [] rt.intent = "none" -> OtherRun(ctx, prompt, resp, env)
              [] OTHER -> FALSE

Typing ==
    Environment({DirectCtx("u1")}, {},
                {ErrResponse("timeout"),
                 OkResponse("STOP", <<TextPart(TextA), ImagePart(Some(ImageX))>>)},
                0, ChatFiles, FALSE)

NextDispatch == ReceiveText \/ ImageMessage(Typing) \/ TextMessage(Typing)

SpecDispatch == InitDispatch /\ [][NextDispatch]_vars

\* SpecFrame: commands and images of a direct chat and a group chat, from every
\* combination of session states of SpecExpiry, where the sweep that starts an
\* event removes one session and keeps the other
TwoKeys ==
    Environment({DirectCtx("u1"), GroupCtx("g", "u1")}, {Words(0), Words(1)},
                {ErrResponse("timeout"),
                 OkResponse("STOP", <<TextPart(TextA), ImagePart(Some(ImageX))>>)},
                ExpiryNow, MaxFiles + 2, FALSE)

NextFrame == Handlers(TwoKeys)

SpecFrame == InitExpiry /\ [][NextFrame]_vars

\* ---------------------------------------------------------------- properties
\* the last event was handled by on_handle_context
Handled(e) == e.kind \in {"image", "other", "exit", "generate", "edit", "continue"}

\* d.get(key) as an Optional
Entry(f, key) == IF key \in DOMAIN f THEN Some(f[key]) ELSE None

\* the lookup as a command for key would run it now
Lookup(key) == _get_recent_image(image_cache, now, key)

\* C1: the history stored for a session key never holds more than 10 turns (the
\* oldest turns are dropped when a new pair is appended).
C1_HistoryCapped ==
    \A k \in DOMAIN conversations : Len(conversations[k]) <= HistoryLimit

\* C2: an edit command (non-empty prompt) for a key with no fresh inbox image
\* and a LastArtifact whose file exists makes exactly one _edit_image call whose
\* source image is that file's bytes.
C2_EditUsesLastArtifact ==
    [][\A k \in DOMAIN last_images :
         LET cache == _cleanup_image_cache(image_cache, now)
             last == ResolveLastImage(files, SweptLastImages(now), k)
         IN  ( /\ ev'.kind = "edit" /\ ev'.key = k /\ ev'.outcome # "usage"
               /\ ~TruthyBytes(_get_recent_image(cache, now, k))
               /\ last # None )
             => /\ Len(ev'.calls) = 1
                /\ ev'.calls[1].fn = "edit"
                /\ ev'.calls[1].image = Some(files[last[1]])]_vars

\* C3: a generate or edit whose remote call fails with a transport error leaves
\* the key's history, activity and LastArtifact entries as they were (after the
\* expiry sweep that starts the event).
C3_TransportLeavesState ==
    [][( /\ ev'.kind \in {"generate", "edit"}
         /\ ev'.err \in {"ssl", "connection", "timeout"} )
       => /\ Entry(conversations', ev'.key) = Entry(SweptConversations(now), ev'.key)
          /\ Entry(conversation_timestamps', ev'.key) = Entry(SweptTimestamps(now), ev'.key)
          /\ Entry(last_images', ev'.key) = Entry(SweptLastImages(now), ev'.key)]_vars

\* C4 as claimed: after an exit for a key with an active session, the inbox
\* lookup, the Last-Artifact Tracker and the Conversation Store all return
\* absent for the key.
C4_ExitClearsInboxToo ==
    (ev.kind = "exit" /\ ev.outcome = "ended")
    => /\ ev.key \notin DOMAIN conversations
       /\ ev.key \notin DOMAIN last_images
       /\ Lookup(ev.key) = None

\* C4 as amended: after an exit for a key with an active session the key is
\* absent from the Conversation Store, the activity records and the
\* Last-Artifact Tracker; the Image Inbox Cache is left as the sweep at the
\* start of the event left it.
C4_ExitClearsSession ==
    [][(ev'.kind = "exit" /\ ev'.outcome = "ended")
       => /\ ev'.key \in DOMAIN SweptConversations(now)
          /\ ev'.key \notin DOMAIN conversations'
          /\ ev'.key \notin DOMAIN conversation_timestamps'
          /\ ev'.key \notin DOMAIN last_images'
          /\ image_cache' = _cleanup_image_cache(image_cache, now)]_vars

\* an exit ended an active session while the key's inbox image was still fresh:
\* the history is gone and the lookup still returns the image
C4_Witness ==
    /\ ev.kind = "exit" /\ ev.outcome = "ended"
    /\ ev.key \notin DOMAIN conversations
    /\ TruthyBytes(Lookup(ev.key))
    /\ ev.key \in CacheKeys(image_cache)

\* the keys a lookup can be made with: the session ids and the cache keys
ProbeKeys == {<<"u1">>, <<"g">>, <<"g", "u1">>} \cup CacheKeys(image_cache)

\* C5 as claimed: an inbox entry written at T is returned by _get_recent_image
\* at every t < T + 300 and at no t >= T + 300.
C5_InboxTtlExclusive ==
    \A i \in 1..Len(image_cache) :
        LET e == image_cache[i]
        IN  /\ now - e.timestamp < image_cache_timeout
               => Lookup(e.key) = Some(e.content[1])
            /\ now - e.timestamp >= image_cache_timeout
               => Lookup(e.key) # Some(e.content[1])

\* C5 as amended: an inbox entry written at T is returned (its first buffer) by
\* _get_recent_image for its key at every t <= T + 300, T + 300 included, and
\* by no lookup, whatever the key, at any t > T + 300.
C5_InboxTtlInclusive ==
    \A i \in 1..Len(image_cache) :
        LET e == image_cache[i]
        IN  /\ now - e.timestamp <= image_cache_timeout
               => Lookup(e.key) = Some(e.content[1])
            /\ now - e.timestamp > image_cache_timeout
               => \A k \in ProbeKeys : \A j \in 1..Len(e.content) :
                      Lookup(k) # Some(e.content[j])

\* an edit command at exactly T + 300 found the entry written at T and sent it
\* to the gateway
C5_Witness ==
    /\ ev.kind = "edit" /\ ev.calls # <<>>
    /\ \E i \in 1..Len(image_cache) :
          /\ image_cache[i].key = ev.key
          /\ now - image_cache[i].timestamp = image_cache_timeout
          /\ ev.calls[1].image = Some(image_cache[i].content[1])

\* C6 as claimed: the sweep of an event at T + 600 (or later) removes a session
\* last touched at T: after a handled event no session is 600 s or more old.
C6_SweptAtDeadline ==
    Handled(ev) =>
        \A k \in DOMAIN conversation_timestamps :
            now - conversation_timestamps[k] < conversation_expiry

\* C6 as amended: a successful generate/edit stamps the session with the current
\* time; the sweep of an event removes a session (history, activity, artifact)
\* when more than 600 s have passed since its stamp and keeps it when 600 s or
\* less have passed, so a session touched at T survives a sweep at T + 600 and
\* one touched again at T + 300 survives a sweep at T + 900 and is removed by
\* any later one.
C6_SweepDeadline ==
    [][Handled(ev') =>
         /\ ev'.outcome = "success" => conversation_timestamps'[ev'.key] = now
         /\ \A k \in DOMAIN conversation_timestamps :
              LET age == now - conversation_timestamps[k]
                  again == k = ev'.key /\ ev'.kind \in {"generate", "edit"}
              IN  /\ (age > conversation_expiry /\ ~again)
                     => /\ k \notin DOMAIN conversation_timestamps'
                        /\ k \notin DOMAIN conversations'
                        /\ k \notin DOMAIN last_images'
                  /\ (age > conversation_expiry /\ again)
                     => /\ Entry(conversation_timestamps', k) \in {None, Some(now)}
                        /\ k \in DOMAIN conversations'
                           => Len(conversations'[k]) <= MaxWords + 2
                  /\ (age <= conversation_expiry /\ ~(k = ev'.key /\ ev'.kind = "exit"))
                     => /\ k \in DOMAIN conversation_timestamps'
                        /\ conversation_timestamps'[k] >= conversation_timestamps[k]
                        /\ k \in DOMAIN conversations'
                        /\ Len(conversations'[k]) >= Len(conversations[k])]_vars

\* a session touched a second time 300 s after its first touch has just been
\* through the sweep of an event exactly 600 s after the second touch
C6_Witness ==
    /\ ev.kind = "other"
    /\ \E k \in DOMAIN conversation_timestamps :
          /\ conversation_timestamps[k] = image_cache_timeout
          /\ now - conversation_timestamps[k] = conversation_expiry
          /\ Len(conversations[k]) >= 4

\* the parts of the response a gateway call was made with
GwParts == gw.resp.candidates[1].parts
GwParsed == gw.resp.err = "none" /\ gw.resp.status = 200 /\ gw.resp.candidates # <<>>
IsText(part) == part.tag = "text" /\ part.text # <<>>
IsImage(part) == part.tag = "inlineData" /\ TruthyBytes(part.data)

\* C7: for a response whose parts are texts and images (at least one image),
\* _generate_image returns two lists as long as the parts, with (None, text) at
\* the index of a text part and (image, None) at the index of an image part.
C7_GenerateKeepsPositions ==
    ( /\ gw.fn = "generate" /\ GwParsed
      /\ \A i \in 1..Len(GwParts) : IsText(GwParts[i]) \/ IsImage(GwParts[i])
      /\ \E i \in 1..Len(GwParts) : IsImage(GwParts[i]) )
    => /\ Len(gw.images) = Len(GwParts)
       /\ Len(gw.texts) = Len(GwParts)
       /\ \A i \in 1..Len(GwParts) :
            IF IsText(GwParts[i])
            THEN gw.images[i] = None /\ gw.texts[i] = Some(GwParts[i].text)
            ELSE gw.images[i] = GwParts[i].data /\ gw.texts[i] = None

\* the first part, in part order, that satisfies Is
FirstIndex(parts, Is(_)) ==
    CHOOSE i \in 1..Len(parts) : Is(parts[i]) /\ \A j \in 1..(i - 1) : ~Is(parts[j])

\* C8: for a parsed response (not a policy rejection) _edit_image returns the
\* first image and the first text in part order (None when there is none),
\* whatever parts follow them.
C8_EditReturnsFirst ==
    ( /\ gw.fn = "edit" /\ GwParsed
      /\ gw.resp.candidates[1].finishReason # "IMAGE_SAFETY" )
    => /\ gw.image = IF \E i \in 1..Len(GwParts) : IsImage(GwParts[i])
                     THEN GwParts[FirstIndex(GwParts, IsImage)].data ELSE None
       /\ gw.text = IF \E i \in 1..Len(GwParts) : IsText(GwParts[i])
                    THEN Some(GwParts[FirstIndex(GwParts, IsText)].text) ELSE None

\* _edit_image returned the first of two different images that a text separates
C8_Witness ==
    /\ gw.fn = "edit" /\ GwParsed
    /\ gw.resp.candidates[1].finishReason = "STOP"
    /\ Len(GwParts) = 3
    /\ IsImage(GwParts[1]) /\ IsText(GwParts[2]) /\ IsImage(GwParts[3])
    /\ GwParts[1].data # GwParts[3].data
    /\ gw.image = GwParts[1].data /\ gw.text = Some(GwParts[2].text)

\* C9: on a timeout, connection or TLS error _generate_image returns no image
\* and a non-empty list of non-empty diagnostic texts, and _edit_image returns a
\* None image and a non-empty diagnostic text.
C9_TransportDiagnostic ==
    gw.resp.err \in {"ssl", "connection", "timeout"}
    => /\ gw.fn = "generate"
          => /\ gw.images = <<>>
             /\ gw.texts # <<>>
             /\ \A i \in 1..Len(gw.texts) : TruthyText(gw.texts[i])
       /\ gw.fn = "edit" => gw.image = None /\ TruthyText(gw.text)

\* both gateway functions have answered a timeout
C9_Witness ==
    /\ gw.resp.err = "timeout"
    /\ \/ gw.fn = "generate" /\ gw.images = <<>> /\ Len(gw.texts) = 1
       \/ gw.fn = "edit" /\ gw.image = None /\ TruthyText(gw.text)

\* the five candidates in priority order
CandidateList(msg) ==
    <<msg.actual_user_id, msg.from_user_id, msg.sender_id, msg.sender_wxid,
      msg.self_display_name>>

\* C10: in group scope, when the top-priority non-empty candidate equals the
\* group id and a lower-priority candidate is non-empty and differs from the
\* group id, the key is built from such a lower-priority candidate, never from
\* the group id.
C10_GroupKeyAvoidsGroupId ==
    LET cands == CandidateList(rs.msg)
        nonempty == {i \in 1..5 : cands[i] # <<>>}
        top == CHOOSE i \in nonempty : \A j \in nonempty : i <= j
        lower == {i \in nonempty : i > top /\ cands[i] # rs.session_id}
    IN  ( /\ rs.done /\ rs.is_group
          /\ nonempty # {}
          /\ cands[top] = rs.session_id
          /\ lower # {} )
        => /\ rs.sender # rs.session_id
           /\ rs.sender \in {cands[i] : i \in lower}
           /\ rs.key = rs.session_id \o rs.sender

\* C11: a generate command with a non-empty prompt on a key with no session,
\* answered with exactly one image (two files written: the saved image and its
\* send copy), leaves LastArtifact[key] a one-element list whose file exists and
\* a history of two turns, a user turn then a model turn.
C11_FirstGenerateOnePair ==
    [][( /\ ev'.kind = "generate" /\ ev'.outcome = "success"
         /\ ev'.key \notin DOMAIN SweptConversations(now)
         /\ nextId' = nextId + 2 )
       => /\ last_images'[ev'.key].list
          /\ Len(last_images'[ev'.key].paths) = 1
          /\ Exists(files', last_images'[ev'.key].paths[1])
          /\ Len(conversations'[ev'.key]) = 2
          /\ conversations'[ev'.key][1].role = "user"
          /\ conversations'[ev'.key][2].role = "model"]_vars

\* some key's LastArtifact names the path (the single path, or a member of the list)
ArtifactOf(p) ==
    \E k \in DOMAIN last_images : p \in Range(last_images[k].paths)

\* C12: a run of _cleanup_temp_files deletes no file that some key's LastArtifact
\* references, deletes every plugin-created file (gemini_, edited_, temp_) that
\* is older than 24 hours and referenced by none, and leaves what it keeps as it
\* was.
C12_SweepSparesArtifacts ==
    sw.fn = "swept" =>
        \A p \in DOMAIN sw.before :
            LET e == sw.before[p]
            IN  /\ ArtifactOf(p) => p \in DOMAIN sw.dir
                /\ ( /\ ~e.isdir /\ PluginFile(p) /\ ~ArtifactOf(p)
                     /\ now - e.mtime > max_age_hours * SecondsPerHour )
                   => p \notin DOMAIN sw.dir
                /\ p \in DOMAIN sw.dir => sw.dir[p] = e

\* a sweep met two equally old plugin files, one a LastArtifact and one not:
\* the first is still there, the second is gone
C12_Witness ==
    /\ sw.fn = "swept"
    /\ \E p, q \in DOMAIN sw.before :
          /\ p # q
          /\ ~sw.before[p].isdir /\ ~sw.before[q].isdir
          /\ sw.before[p].mtime = sw.before[q].mtime
          /\ now - sw.before[p].mtime > max_age_hours * SecondsPerHour
          /\ ArtifactOf(p) /\ ~ArtifactOf(q) /\ PluginFile(q)
          /\ p \in DOMAIN sw.dir /\ q \notin DOMAIN sw.dir

\* C13: the key under which a sender's inbound image is cached is the key that
\* the sender's edit command in the same chat works on: an edit that sends an
\* inbox image to the gateway found it under its own session key.
C13_SessionKeyStable ==
    [][(ev'.kind = "edit" /\ ev'.calls # <<>>)
       => /\ CacheGet(image_cache', ev'.key) # None
          /\ ev'.calls[1].image = EntryImage(CacheGet(image_cache', ev'.key)[1])]_vars

\* C14: two distinct senders of one group chat never share a session key: a
\* generate or edit by one of them leaves the history, activity and LastArtifact
\* entries that the other's commands read as the sweep left them, and an inbound
\* image of one is cached under a key that is not the other's.
C14_SendersIsolated ==
    [][\A c \in TwoSenders.ctxs :
         Commander(c).sender # ev'.sender
         => /\ ev'.kind \in {"generate", "edit"}
               => /\ Entry(conversations', c.session_id)
                       = Entry(SweptConversations(now), c.session_id)
                  /\ Entry(conversation_timestamps', c.session_id)
                       = Entry(SweptTimestamps(now), c.session_id)
                  /\ Entry(last_images', c.session_id)
                       = Entry(SweptLastImages(now), c.session_id)
            /\ ev'.kind = "image"
               => ev'.key # CacheKey(c.isgroup, c.session_id, c.msg)]_vars

\* C15: a generate or edit command with an empty prompt, and an edit command
\* (non-empty prompt) for a key with neither a fresh inbox image nor an existing
\* LastArtifact file, send one text reply, make no gateway call, write no file
\* and leave the history, activity, LastArtifact and inbox cache as the sweeps
\* at the start of the event left them.
C15_RejectedLeavesState ==
    [][( \/ ev'.kind \in {"generate", "edit"} /\ ev'.outcome = "usage"
         \/ /\ ev'.kind = "edit" /\ ev'.outcome # "usage"
            /\ ~TruthyBytes(_get_recent_image(_cleanup_image_cache(image_cache, now),
                                              now, ev'.key))
            /\ ResolveLastImage(files, SweptLastImages(now), ev'.key) = None )
       => /\ Len(ev'.replies) = 1
          /\ ev'.replies[1] \in {"usage", "no_image"}
          /\ ev'.calls = <<>>
          /\ conversations' = SweptConversations(now)
          /\ conversation_timestamps' = SweptTimestamps(now)
          /\ last_images' = SweptLastImages(now)
          /\ image_cache' = _cleanup_image_cache(image_cache, now)
          /\ files' = files]_vars

\* an edit was refused for a key whose LastArtifact file is gone: the session is
\* still there and the user was told that there is no image
C15_Witness ==
    /\ ev.kind = "edit" /\ ev.replies = <<"no_image">>
    /\ ev.key \in DOMAIN last_images
    /\ ev.key \in DOMAIN conversation_timestamps
    /\ conversations[ev.key] # <<>>

\* C16: every exit, generate or edit command ends with at least one reply sent
\* and the event action BREAK_PASS.
C16_CommandAlwaysReplies ==
    ev.kind \in {"exit", "generate", "edit"}
    => ev.replies # <<>> /\ ev.action = "BREAK_PASS"

\* C17: an edit command reads the inbox and does not consume it: it leaves
\* image_cache as the sweep left it, the image it sends is the first buffer of
\* the key's fresh entry when there is one, and the same lookup made right after
\* the command returns the same image.
C17_EditKeepsInbox ==
    [][ev'.kind = "edit"
       => /\ image_cache' = _cleanup_image_cache(image_cache, now)
          /\ ev'.calls # <<>>
             => /\ _get_recent_image(image_cache', now, ev'.key) = ev'.calls[1].image
                /\ \A i \in 1..Len(image_cache) :
                     ( /\ image_cache[i].key = ev'.key
                       /\ now - image_cache[i].timestamp <= image_cache_timeout )
                     => ev'.calls[1].image = Some(image_cache[i].content[1])]_vars

\* a second successful edit used the same inbound image as the first one: both
\* user turns of the history carry a copy of the first buffer of the inbox entry
C17_Witness ==
    /\ ev.kind = "edit" /\ ev.outcome = "success"
    /\ Len(conversations[ev.key]) = 4
    /\ CacheGet(image_cache, ev.key) # None
    /\ \A t \in {1, 3} :
          LET turn == conversations[ev.key][t]
          IN  /\ turn.role = "user"
              /\ Len(turn.parts) = 2
              /\ Exists(files, turn.parts[2].path)
              /\ files[turn.parts[2].path] = CacheGet(image_cache, ev.key)[1].content[1]

\* C18: an inbound image payload is stored exactly when it is non-empty, every
\* buffer is longer than 100 bytes and every buffer decodes; a stored payload
\* becomes the key's entry, stamped with the current time; a rejected payload
\* leaves the key's entry as it was when the handler was entered (after the
\* sweep that starts the event); no other key's entry changes.
C18_InboxPutValidates ==
    [][ev'.kind = "image"
       => LET swept == _cleanup_image_cache(image_cache, now)
              payload == ev'.payload
              valid == /\ Len(payload) > 0
                       /\ \A i \in 1..Len(payload) : payload[i].len > 100 /\ payload[i].ok
          IN  /\ valid
                 => CacheGet(image_cache', ev'.key)
                      = Some([key |-> ev'.key, content |-> payload, timestamp |-> now])
              /\ ~valid => CacheGet(image_cache', ev'.key) = CacheGet(swept, ev'.key)
              /\ \A k \in CacheKeys(image_cache) \cup CacheKeys(image_cache') :
                    k # ev'.key => CacheGet(image_cache', k) = CacheGet(swept, k)]_vars

\* a buffer of exactly 100 bytes was rejected while the key held a fresh entry
\* written earlier: the entry is still there with its old timestamp
C18_Witness ==
    /\ ev.kind = "image"
    /\ Len(ev.payload) = 1 /\ ev.payload[1].len = MinImageBytes /\ ev.payload[1].ok
    /\ CacheGet(image_cache, ev.key) # None
    /\ CacheGet(image_cache, ev.key)[1].timestamp < now

\* C19: the expiry sweep removes, for every key whose activity record is more
\* than 600 s old, the history, the activity record and the LastArtifact in the
\* same sweep, and leaves the three entries of every other key unchanged (seen
\* on the events that do nothing to the three maps but sweep them; for an exit,
\* on the keys other than its own).
C19_SweepRemovesAsUnit ==
    [][ev'.kind \in {"other", "image", "exit"}
       => \A k \in DOMAIN conversations \cup DOMAIN conversation_timestamps
                   \cup DOMAIN last_images :
             IF k \in DOMAIN conversation_timestamps
                /\ now - conversation_timestamps[k] > 600
             THEN /\ k \notin DOMAIN conversations'
                  /\ k \notin DOMAIN conversation_timestamps'
                  /\ k \notin DOMAIN last_images'
             ELSE (ev'.kind = "exit" /\ ev'.key = k)
                  \/ /\ Entry(conversations', k) = Entry(conversations, k)
                     /\ Entry(conversation_timestamps', k) = Entry(conversation_timestamps, k)
                     /\ Entry(last_images', k) = Entry(last_images, k)]_vars

\* a sweep has removed one session as a unit and kept another one that was
\* exactly 600 s old
C19_Witness ==
    /\ ev.kind = "other"
    /\ \E k, j \in {<<"u1">>, <<"g">>} :
          /\ k \notin DOMAIN conversations \cup DOMAIN conversation_timestamps
                      \cup DOMAIN last_images
          /\ j \in DOMAIN conversations \cap DOMAIN last_images
          /\ j \in DOMAIN conversation_timestamps
          /\ now - conversation_timestamps[j] = conversation_expiry
          /\ Cardinality(DOMAIN files) = 4

\* C20: the sender id resolved for an inbound image is the first candidate, in
\* the order actual_user_id, from_user_id, sender_id, sender_wxid,
\* self_display_name, that is non-empty and, in group scope, differs from the
\* group id.
C20_FirstUsableCandidate ==
    LET cands == CandidateList(rs.msg)
        usable == {i \in 1..5 :
                      cands[i] # <<>> /\ ~(rs.is_group /\ cands[i] = rs.session_id)}
    IN  (rs.done /\ usable # {})
        => rs.sender = cands[CHOOSE i \in usable : \A j \in usable : i <= j]

\* C21: the resolution always yields a non-empty sender id and key, and when no
\* candidate is usable (all five empty, or in group scope every non-empty one
\* equal to the group id) the sender id is user_<hash(session_id) mod 10000> and
\* the key is that id in direct scope and group id + "_" + that id in group scope.
C21_FallbackWhenExhausted ==
    LET cands == CandidateList(rs.msg)
        usable == {i \in 1..5 :
                      cands[i] # <<>> /\ ~(rs.is_group /\ cands[i] = rs.session_id)}
    IN  rs.done
        => /\ rs.sender # <<>> /\ rs.key # <<>>
           /\ usable = {}
              => /\ rs.sender = <<"user", ToString(HashId(rs.session_id) % 10000)>>
                 /\ rs.key = IF rs.is_group THEN rs.session_id \o rs.sender ELSE rs.sender

\* C22: in a group chat, when the exact key misses and the sender of an edit
\* command has a fresh inbox entry under group id + "_" + sender id, the image
\* the edit sends to the gateway is the first buffer of that entry, whatever
\* other members of the group have in the inbox.
C22_GroupLookupPrefersSender ==
    [][(ev'.kind = "edit" /\ ev'.calls # <<>>)
       => LET swept == _cleanup_image_cache(image_cache, now)
              own == CacheGet(swept, ev'.key \o ev'.sender)
          IN  ( /\ CacheGet(swept, ev'.key) = None
                /\ own # None
                /\ now - own[1].timestamp <= image_cache_timeout )
              => ev'.calls[1].image = Some(own[1].content[1])]_vars

\* the entries of the cache that are fresh at the time of the lookup
FreshEntries == {i \in 1..Len(image_cache) :
                    now - image_cache[i].timestamp <= image_cache_timeout}

\* C23: when the exact key has no fresh entry, _get_recent_image returns the
\* first buffer of a fresh entry whose key starts with key + "_" or ends with
\* "_" + key; if there is none and the key has several "_"-separated
\* components, the first buffer of a fresh entry stored under one of them;
\* otherwise absent. What it returns is never a buffer of an expired entry.
C23_ScanThenSplit ==
    lk.fn = "answered" =>
        LET key == lk.key
            n == Len(key)
            affixed == {i \in FreshEntries :
                           LET ck == image_cache[i].key
                           IN  /\ Len(ck) > n
                               /\ \/ SubSeq(ck, 1, n) = key
                                  \/ SubSeq(ck, Len(ck) - n + 1, Len(ck)) = key}
            component == {i \in FreshEntries :
                             \E c \in 1..n : image_cache[i].key = <<key[c]>>}
            first(hits) == {Some(image_cache[i].content[1]) : i \in hits}
        IN  /\ (\A i \in FreshEntries : image_cache[i].key # key)
               => IF affixed # {} THEN lk.result \in first(affixed)
                  ELSE IF n > 1 /\ component # {} THEN lk.result \in first(component)
                  ELSE lk.result = None
            /\ \A i \in 1..Len(image_cache) : \A b \in 1..Len(image_cache[i].content) :
                  lk.result = Some(image_cache[i].content[b]) => i \in FreshEntries

\* the lookup for the key g_u1 met an expired entry under that key and an
\* expired one under g, and returned the first buffer of the fresh entry under u1
C23_Witness ==
    /\ lk.fn = "answered" /\ lk.key = <<"g", "u1">>
    /\ Len(image_cache) = 3
    /\ \E i, j, k \in 1..3 :
          /\ image_cache[i].key = <<"g", "u1">> /\ i \notin FreshEntries
          /\ image_cache[j].key = <<"g">> /\ j \notin FreshEntries
          /\ image_cache[k].key = <<"u1">> /\ k \in FreshEntries
          /\ lk.result = Some(image_cache[k].content[1])

\* C24: a generate or edit command makes at most one gateway request, and when
\* it made one that brought no image to the user (transport error, non-200
\* status, response without an image) the same event sends a failure text reply.
C24_OneRequestFailureReply ==
    ev.kind \in {"generate", "edit"}
    => /\ Len(ev.calls) <= 1
       /\ (ev.calls # <<>> /\ "image" \notin Range(ev.replies))
          => \E i \in 1..Len(ev.replies) : ev.replies[i] \in {"fail", "fail_text"}

\* C25: for a response whose finishReason is IMAGE_SAFETY both gateway
\* functions return no image and a non-empty diagnostic text: _generate_image
\* an image list without an image and a text list with a non-empty text,
\* _edit_image a None image and the raw response as text.
C25_SafetyDiagnostic ==
    (gw.fn \in {"generate", "edit"} /\ GwParsed
     /\ gw.resp.candidates[1].finishReason = "IMAGE_SAFETY")
    => /\ gw.fn = "generate"
          => /\ \A i \in 1..Len(gw.images) : gw.images[i] = None
             /\ \E i \in 1..Len(gw.texts) : TruthyText(gw.texts[i])
       /\ gw.fn = "edit" => gw.image = None /\ TruthyText(gw.text)

\* C26: with handlers of distinct sessions running concurrently, no handler
\* fails because another thread inserted into or deleted from the map it
\* iterates or updates, and no committed update is lost: the entry a handler has
\* stored is still the key's entry while it is fresh.
C26_ThreadsTolerate ==
    th.pc = "running"
    => \A tid \in 1..Threads :
          /\ th.thread[tid].pc \notin {"RuntimeError", "KeyError"}
          /\ th.thread[tid].pc = "done"
             => CacheGet(image_cache, ThreadKey(tid))
                  = Some(StoredEntry(ThreadKey(tid), now))

\* C27: a generate or edit that delivers an image leaves the activity record of
\* its key equal to the current time; a generate or edit that delivers none
\* (failed, or rejected with a usage error) and an inbound image message create
\* no activity record and give none another value (the sweep that starts the
\* event may have removed records).
C27_ActivityOnlyOnSuccess ==
    [][/\ (ev'.kind \in {"generate", "edit"} /\ "image" \in Range(ev'.replies))
          => Entry(conversation_timestamps', ev'.key) = Some(now)
       /\ ( \/ ev'.kind = "image"
            \/ ev'.kind \in {"generate", "edit"} /\ "image" \notin Range(ev'.replies) )
          => \A k \in DOMAIN conversation_timestamps' :
                /\ k \in DOMAIN conversation_timestamps
                /\ conversation_timestamps'[k] = conversation_timestamps[k]]_vars

\* a generate that timed out on a key whose session was stamped earlier: the
\* activity record still holds the earlier time
C27_Witness ==
    /\ ev.kind = "generate" /\ ev.err = "timeout" /\ ev.calls # <<>>
    /\ ev.key \in DOMAIN conversation_timestamps
    /\ conversation_timestamps[ev.key] < now

\* the image files that the turns of a history reference
HistoryFiles(history) ==
    UNION {{history[i].parts[j].path : j \in 1..Len(history[i].parts)} :
              i \in 1..Len(history)} \ {NoPath}

\* C28: no step, and so no run of the file sweeper, removes a file that a turn
\* in the history of a session that has not expired references: the files are
\* there when the history is serialized into the next request.
C28_SweepSparesHistory ==
    [][\A k \in DOMAIN conversations \cap DOMAIN conversation_timestamps :
          now - conversation_timestamps[k] <= conversation_expiry
          => \A p \in {q \in HistoryFiles(conversations[k]) : Exists(files, q)} :
                Exists(files', p)]_vars

\* the paths of a key's last images, after the sweep of the event
LastPaths(key) ==
    IF key \in DOMAIN SweptLastImages(now) THEN SweptLastImages(now)[key].paths ELSE <<>>

OnlySwept(before, after) ==
    /\ DOMAIN after \subseteq DOMAIN before
    /\ \A k \in DOMAIN after : after[k] = before[k]
    /\ \A k \in DOMAIN before \ DOMAIN after :
          /\ k \in DOMAIN conversation_timestamps
          /\ now - conversation_timestamps[k] > 600

\* C30: an inbound image message sends no reply and makes no gateway call; the
\* history, the activity time and the last artifact of every key are as before,
\* apart from the sessions the expiry sweep removes; the cached images of every
\* key other than the resolved one are as before, apart from the entries older
\* than 300 s that the cache sweep removes.
C30_ImageOnlyCaches ==
    [][ev'.kind = "image"
       => /\ ev'.replies = <<>>
          /\ ev'.calls = <<>>
          /\ OnlySwept(conversations, conversations')
          /\ OnlySwept(conversation_timestamps, conversation_timestamps')
          /\ OnlySwept(last_images, last_images')
          /\ \A k \in (CacheKeys(image_cache) \cup CacheKeys(image_cache')) \ {ev'.key} :
                \/ CacheGet(image_cache', k) = CacheGet(image_cache, k)
                \/ /\ CacheGet(image_cache', k) = None
                   /\ now - CacheGet(image_cache, k)[1].timestamp > 300]_vars

\* an image of the group member has been cached next to the image of the direct
\* chat, the session of the direct chat having been removed by the sweep and the
\* session of the group kept
C30_Witness ==
    /\ ev.kind = "image"
    /\ ev.outcome = "cached"
    /\ ev.key = <<"g", "u1">>
    /\ CacheKeys(image_cache) = {<<"u1">>, <<"g", "u1">>}
    /\ Cardinality(DOMAIN files) = 4
    /\ DOMAIN conversations = {<<"g">>}
    /\ DOMAIN last_images = {<<"g">>}

\* the times of the key's successful generates and edits: the modification
\* times of the result files written so far (one key writes them)
SuccessTimes ==
    {sw.dir[p].mtime : p \in {q \in DOMAIN sw.dir : q.prefix \in {"gemini", "edited"}}}

\* C31: a generate, edit or exit command that arrives more than 600 s after the
\* key's last successful generate or edit is dispatched on a state, left by the
\* sweeps that start the event, in which the key has no turn of history and no
\* last artifact; and the source image of an edit is never an inbox image older
\* than 300 s.
C31_SweptBeforeDispatch ==
    [][ev'.kind \in {"generate", "edit", "exit"}
       => /\ (SuccessTimes # {} /\ \A t \in SuccessTimes : now - t > 600)
             => /\ ev'.key \notin DOMAIN SweptLastImages(now)
                /\ Entry(SweptConversations(now), ev'.key) \in {None, Some(<<>>)}
          /\ (ev'.kind = "edit" /\ ev'.calls # <<>>)
             => \E i \in 1..Len(image_cache) :
                   /\ now - image_cache[i].timestamp <= 300
                   /\ ev'.calls[1].image = EntryImage(image_cache[i])]_vars

\* the text without the blanks around it
Trimmed(raw) ==
    CHOOSE t \in Contents :
        /\ t = <<>> \/ (t[1] # " " /\ t[Len(t)] # " ")
        /\ \E a, b \in 0..Len(raw) :
              raw = [i \in 1..a |-> " "] \o t \o [i \in 1..b |-> " "]

\* the text begins with one of the commands
BeginsWithOneOf(t, cmds) ==
    \E c \in 1..Len(cmds) :
        /\ Len(cmds[c]) <= Len(t)
        /\ \A i \in 1..Len(cmds[c]) : t[i] = cmds[c][i]

\* C32: a text message is handled as exactly one intent, chosen in the order
\* exit, generate, edit, none: as an exit exactly when the trimmed text equals an
\* exit literal; else as a generate exactly when it begins with a generate
\* command; else as an edit exactly when it begins with an edit command; and the
\* message makes at most one gateway call.
C32_OneIntentInOrder ==
    [][ev'.kind \in {"exit", "generate", "edit", "other", "continue"}
       => LET t == Trimmed(rt.content)
              exit == \E c \in 1..Len(rt.exit_commands) : rt.exit_commands[c] = t
              generate == BeginsWithOneOf(t, rt.commands)
              edit == BeginsWithOneOf(t, rt.edit_commands)
          IN  /\ ev'.kind = "exit" <=> exit
              /\ ev'.kind = "generate" <=> ~exit /\ generate
              /\ ev'.kind = "edit" <=> ~exit /\ ~generate /\ edit
              /\ ev'.kind = "other" <=> ~exit /\ ~generate /\ ~edit
              /\ Len(ev'.calls) <= 1]_vars

\* a text that begins with a generate command and with an edit command has been
\* handled as a generate, with one gateway call
C32_Witness ==
    /\ ev.kind = "generate"
    /\ Len(ev.calls) = 1
    /\ rt.content = <<"g", "x", "g">>
    /\ rt.edit_commands = <<<<"g", "x">>>>

\* C33: every key that has a history or a last artifact also has an activity
\* record (so that the expiry sweep, which walks the activity records, reaches
\* every entry).
C33_EveryEntryStamped ==
    \A k \in DOMAIN conversations \cup DOMAIN last_images :
        k \in DOMAIN conversation_timestamps

\* C34: every key that has an activity record also has a history and a last
\* artifact.
C34_StampedHasBoth ==
    \A k \in DOMAIN conversation_timestamps :
        k \in DOMAIN conversations /\ k \in DOMAIN last_images

\* a session that was started again by an edit after its first life expired
C34_Witness ==
    /\ ev.kind = "edit"
    /\ ev.outcome = "success"
    /\ now > conversation_expiry
    /\ conversation_timestamps = (<<"u1">> :> now)
    /\ Len(conversations[<<"u1">>]) = 2
    /\ Cardinality(DOMAIN files) = 4

\* C35: an exit command for a key that has had no successful generate or edit
\* since its last exit or expiry (the key has no activity record once the sweep
\* of the event has run) replies "no active session" and leaves the stores as
\* the sweeps left them; it confirms the end of a session only for a key that
\* has had such a success.
C35_ExitNeedsSuccess ==
    [][ev'.kind = "exit"
       => LET succeeded == ev'.key \in DOMAIN SweptTimestamps(now)
          IN  /\ ~succeeded
                 => /\ ev'.replies = <<"no_session">>
                    /\ conversations' = SweptConversations(now)
                    /\ conversation_timestamps' = SweptTimestamps(now)
                    /\ last_images' = SweptLastImages(now)
                    /\ image_cache' = _cleanup_image_cache(image_cache, now)
              /\ ev'.replies = <<"ended">> => succeeded]_vars

\* an edit command with a prompt arrives for a key whose last artifact is the
\* result of a successful edit: a single edited_* path of a live session, its
\* file on disk
EditAfterEdit ==
    /\ ev'.kind = "edit"
    /\ ev'.outcome # "usage"
    /\ ev'.key \in DOMAIN SweptLastImages(now)
    /\ ~last_images[ev'.key].list
    /\ last_images[ev'.key].paths[1].prefix = "edited"
    /\ last_images[ev'.key].paths[1] \in DOMAIN files

C37_ArtifactNeverEmpty ==
    \A k \in DOMAIN last_images :
        /\ Len(last_images[k].paths) >= 1
        /\ ~last_images[k].list => Len(last_images[k].paths) = 1
        /\ \A i \in 1..Len(last_images[k].paths) :
              /\ last_images[k].paths[i] # NoPath
              /\ last_images[k].paths[i].id < nextId

\* a generate whose only image had no bytes has saved nothing and has left the
\* artifact of an earlier success in place
C37_Witness ==
    /\ ev.kind = "generate"
    /\ ev.outcome = "silent"
    /\ <<"g">> \in DOMAIN last_images
    /\ last_images[<<"g">>].list

\* C38: a generate, edit or exit command handled for a key leaves the history,
\* the activity record and the last artifact of every other key as they were,
\* except that the entries of a key whose activity record is more than 600 s
\* old may be gone.
C38_OtherKeysUntouched ==
    [][ev'.kind \in {"generate", "edit", "exit"}
       => \A j \in (DOMAIN conversations \cup DOMAIN conversations'
                    \cup DOMAIN conversation_timestamps \cup DOMAIN conversation_timestamps'
                    \cup DOMAIN last_images \cup DOMAIN last_images') \ {ev'.key} :
             LET idle == /\ j \in DOMAIN conversation_timestamps
                         /\ now - conversation_timestamps[j] > 600
             IN  /\ Entry(conversations', j) = Entry(conversations, j)
                    \/ (idle /\ Entry(conversations', j) = None)
                 /\ Entry(conversation_timestamps', j) = Entry(conversation_timestamps, j)
                    \/ (idle /\ Entry(conversation_timestamps', j) = None)
                 /\ Entry(last_images', j) = Entry(last_images, j)
                    \/ (idle /\ Entry(last_images', j) = None)]_vars

\* a generate has extended the live session of the direct chat; the session of
\* the group, idle for more than 600 s, is gone and its files are still there
C38_Witness ==
    /\ ev.kind = "generate"
    /\ ev.outcome = "success"
    /\ ev.key = <<"u1">>
    /\ Len(conversations[<<"u1">>]) = 4
    /\ <<"g">> \notin DOMAIN conversations \cup DOMAIN last_images
    /\ Cardinality(DOMAIN files) = 6

====
